---------------------------- MODULE Spec2Model ----------------------------
(***************************************************************************)
(* GuyeuxMobile traffic simulation: the road graph, the two edge models    *)
(* (models/edges/cellular.py, models/edges/fluid.py), the round-robin      *)
(* traffic light and the tick engine of core/simulation.py.                *)
(*                                                                         *)
(* Python objects are modelled by value: a Vehicle object is a number of   *)
(* Objs, its attributes (id, path, current_edge, speed) are functions over *)
(* Objs, and None is 0.  Floats are fixed-point numbers with Scale units   *)
(* for 1.0; cell indices are 0-based as in the source.                     *)
(***************************************************************************)
EXTENDS Integers, Sequences, FiniteSets, TLC

VARIABLES
    graph,          \* RoadGraph.graph: [nodes, edgeList] (edgeList in get_edges() order)
    edges,          \* the edge objects, edges[i] belongs to graph.edgeList[i]
    intersections,  \* RoadGraph.intersections: node -> controller record or NoLight
    vehicles,       \* Simulation.vehicles: the live list
    vid,            \* Vehicle.id of every vehicle object
    path,           \* Vehicle.path
    current_edge,   \* Vehicle.current_edge (an index of edges, 0 for None)
    speed,          \* Vehicle.speed (fixed point)
    t,              \* Simulation.t
    crashed,        \* an exception escaped a call: "" or the exception's name
    events,         \* what the transfer phase of the last step did, in order
    returned,       \* the last direct call of a method: [call, args, value]
    tick_duration,      \* Simulation.tick_duration = 1.0 / tps (fixed point)
    since_last_update,  \* Simulation.since_last_update (fixed point)
    running,            \* Simulation.running
    visualizer          \* Simulation.visualizer: [present, updates], updates counts update(t)

(* the fields of the Simulation that only tick() reads and writes *)
clock == <<tick_duration, since_last_update, running, visualizer>>

vars == <<graph, edges, intersections, vehicles, vid, path, current_edge,
          speed, t, crashed, events, returned, clock>>

-----------------------------------------------------------------------------
(* Bounds of the model *)

MaxVeh == 3

MaxQueue == 2

MaxTicks == 10

MaxCells == 3

Objs == 1..MaxVeh

None == 0

(* fixed-point resolution of the float positions and speeds: Scale = 1.0 *)
Scale == 20

Nodes == {"A", "B", "C", "D"}

(* Simulation(graph, tps = 1) without a visualizer, before the loop runs *)
InitClock ==
    /\ tick_duration = Scale
    /\ since_last_update = 0
    /\ running = FALSE
    /\ visualizer = [present |-> FALSE, updates |-> 0]

(* no method has been called directly yet *)
NoReturn == [call |-> "", args |-> <<>>, value |-> <<>>]

Return(call, args, value) == [call |-> call, args |-> args, value |-> value]

-----------------------------------------------------------------------------
(* Helpers *)

Min2(a, b) == IF a <= b THEN a ELSE b

Max2(a, b) == IF a >= b THEN a ELSE b

Range(s) == {s[i] : i \in DOMAIN s}

(* list.insert(0, x) *)
Cons(x, s) == <<x>> \o s

(* list.remove(x): drops the first occurrence *)
RECURSIVE RemoveFirst(_, _)
RemoveFirst(s, x) ==
    IF s = <<>> THEN <<>>
    ELSE IF Head(s) = x THEN Tail(s)
    ELSE <<Head(s)>> \o RemoveFirst(Tail(s), x)

EmptyMap == [k \in {} |-> 0]

MapPut(f, k, val) == [x \in DOMAIN f \cup {k} |-> IF x = k THEN val ELSE f[x]]

MapDel(f, k) == [x \in DOMAIN f \ {k} |-> f[x]]

-----------------------------------------------------------------------------
(* Edge objects.  One record shape serves both classes; the fields of the  *)
(* other class stay at their empty values.                                 *)

CellularEdge(distance, vmax, prob_slow) ==
    [kind |-> "cellular", distance |-> distance, vmax |-> vmax,
     prob_slow |-> prob_slow,
     cells |-> [p \in 0..(distance - 1) |-> None],
     entry_queue |-> <<>>,
     dens_num |-> 0, dens_den |-> 1, max_vehicles |-> 0,
     vehicles |-> <<>>, positions |-> EmptyMap]

(* density_max is the rational dens_num / dens_den *)
FluidEdge(distance, vmax, dens_num, dens_den) ==
    [kind |-> "fluid", distance |-> distance, vmax |-> vmax,
     prob_slow |-> 0,
     cells |-> [p \in {} |-> None],
     entry_queue |-> <<>>,
     dens_num |-> dens_num, dens_den |-> dens_den,
     max_vehicles |-> (distance * dens_num) \div dens_den,
     vehicles |-> <<>>, positions |-> EmptyMap]

-----------------------------------------------------------------------------
(* CellularEdge (models/edges/cellular.py) *)

(* insert_vehicle: cell 0 when it is free, else the entry queue and False *)
Cellular_insert_vehicle(e, sp, v) ==
    IF e.cells[0] = None
    THEN [edge  |-> [e EXCEPT !.cells[0] = v],
          speed |-> [sp EXCEPT ![v] = Min2(sp[v], e.vmax * Scale)],
          ok    |-> TRUE]
    ELSE [edge  |-> [e EXCEPT !.entry_queue = Append(@, v)],
          speed |-> sp,
          ok    |-> FALSE]

(* the outcomes of random.random() < prob_slow, prob_slow in percent *)
BrakeDraws(prob_slow) ==
    {b \in BOOLEAN : (b => prob_slow > 0) /\ (~b => prob_slow < 100)}

(* One iteration of update's loop on the occupied cell pos.  acc holds the *)
(* loop's state: cells, speed, last_vehicle_pos, exiting, err.             *)
CellularMove(acc, e, pos, allow_exit, brake) ==
    LET vehicle == acc.cells[pos]
        distance_to_next == acc.last_vehicle_pos - pos - 1
        accel == Min2(distance_to_next * Scale,
                      Min2(acc.speed[vehicle] + Scale, e.vmax * Scale))
        spd == IF brake /\ accel > 0 THEN Max2(0, accel - Scale) ELSE accel
        next_fp == pos * Scale + spd
        next_pos == next_fp \div Scale
        sp1 == [acc.speed EXCEPT ![vehicle] = spd]
    IN  IF next_fp >= e.distance * Scale
        THEN IF allow_exit
             THEN [acc EXCEPT !.speed = sp1,
                              !.exiting = Append(@, vehicle),
                              !.cells[pos] = None]
             ELSE LET target == e.distance - 1
                  IN  [acc EXCEPT !.speed = [sp1 EXCEPT ![vehicle] = 0],
                                  !.cells = IF target # pos
                                            THEN [@ EXCEPT ![target] = vehicle,
                                                           ![pos] = None]
                                            ELSE @,
                                  !.last_vehicle_pos = target]
        ELSE IF next_fp % Scale # 0
             \* a float index: cells[next_pos] raises TypeError
             THEN [acc EXCEPT !.speed = sp1, !.err = "TypeError"]
             ELSE LET moved == acc.cells[next_pos] = None
                      cells1 == IF moved
                                THEN [acc.cells EXCEPT ![next_pos] = vehicle,
                                                       ![pos] = None]
                                ELSE acc.cells
                  IN  [acc EXCEPT !.speed = sp1,
                                  !.cells = cells1,
                                  !.last_vehicle_pos =
                                      IF cells1[next_pos] # None THEN next_pos ELSE pos]

(* the loop "for pos in range(distance - 1, -1, -1)": every final loop state *)
RECURSIVE CellularScan(_, _, _, _)
CellularScan(acc, e, pos, allow_exit) ==
    IF pos < 0 \/ acc.err # "" THEN {acc}
    ELSE IF acc.cells[pos] = None THEN CellularScan(acc, e, pos - 1, allow_exit)
    ELSE UNION {CellularScan(CellularMove(acc, e, pos, allow_exit, b), e, pos - 1, allow_exit)
                    : b \in BrakeDraws(e.prob_slow)}

(* update(allow_exit): the set of possible results [edge, speed, exiting, err] *)
Cellular_update(e, sp, allow_exit) ==
    LET start == [cells |-> e.cells, speed |-> sp,
                  last_vehicle_pos |-> IF allow_exit THEN e.distance + 1 ELSE e.distance,
                  exiting |-> <<>>, err |-> ""]
        Finish(acc) ==
            IF acc.err = "" /\ e.entry_queue # <<>> /\ acc.cells[0] = None
            THEN [edge |-> [e EXCEPT !.cells = [acc.cells EXCEPT ![0] = Head(e.entry_queue)],
                                     !.entry_queue = Tail(e.entry_queue)],
                  speed |-> acc.speed, exiting |-> acc.exiting, err |-> acc.err]
            ELSE [edge |-> [e EXCEPT !.cells = acc.cells],
                  speed |-> acc.speed, exiting |-> acc.exiting, err |-> acc.err]
    IN  {Finish(acc) : acc \in CellularScan(start, e, e.distance - 1, allow_exit)}

(* get_occupation_ratio as the pair (occupied cells, distance) *)
CellularOccupied(e) == Cardinality({p \in DOMAIN e.cells : e.cells[p] # None})

-----------------------------------------------------------------------------
(* FluidEdge (models/edges/fluid.py) *)

(* safe_distance = 0.5, also the "at the exit" margin of peek_last_vehicle *)
SafeDistance == Scale \div 2

(* the values drawn for random.uniform(0.9, 1.1), in tenths *)
Variances == {9, 10, 11}

(* an insert that does not look at max_vehicles *)
Fluid_insert_unchecked(e, sp, ids, v) ==
    [edge  |-> [e EXCEPT !.vehicles = Append(@, v),
                         !.positions = MapPut(@, ids[v], 0)],
     speed |-> [sp EXCEPT ![v] = 0],
     ok    |-> TRUE]

(* insert_vehicle: refused at max_vehicles, else appended at position 0.0 *)
Fluid_insert_vehicle(e, sp, ids, v) ==
    IF Len(e.vehicles) >= e.max_vehicles
    THEN [edge |-> e, speed |-> sp, ok |-> FALSE]
    ELSE [edge  |-> [e EXCEPT !.vehicles = Append(@, v),
                              !.positions = MapPut(@, ids[v], 0)],
          speed |-> [sp EXCEPT ![v] = 0],
          ok    |-> TRUE]

(* 1 - (density / density_max)^2 as the fraction FactorNum / FactorDen *)
FactorDen(e) == (e.distance * e.dens_num) * (e.distance * e.dens_num)

FactorNum(e, count) ==
    Max2(0, FactorDen(e) - (count * e.dens_den) * (count * e.dens_den))

(* current_speed = vmax * speed_factor, times the variance (tenths) *)
FluidVehSpeed(e, count, variance) ==
    (e.vmax * Scale * FactorNum(e, count) * variance) \div (FactorDen(e) * 10)

(* speed_factor > 0.2 decides whether the variance is drawn *)
FluidVariances(e, count) ==
    IF 5 * FactorNum(e, count) > FactorDen(e) THEN Variances ELSE {10}

(* sorted(vehicles, key = position, reverse = True): stable, so vehicles at *)
(* equal positions keep their list order                                   *)
RECURSIVE InsertDesc(_, _, _, _)
InsertDesc(s, v, pos, ids) ==
    IF s = <<>> THEN <<v>>
    ELSE IF pos[ids[Head(s)]] >= pos[ids[v]]
         THEN <<Head(s)>> \o InsertDesc(Tail(s), v, pos, ids)
         ELSE <<v>> \o s

RECURSIVE SortedDesc(_, _, _)
SortedDesc(s, pos, ids) ==
    IF s = <<>> THEN <<>>
    ELSE InsertDesc(SortedDesc(SubSeq(s, 1, Len(s) - 1), pos, ids), s[Len(s)], pos, ids)

(* the body of update's loop for sorted_vehicles[i] *)
FluidMove(acc, e, sorted, i, ids, variance) ==
    LET vehicle == sorted[i]
        drawn == FluidVehSpeed(e, Len(e.vehicles), variance)
        raw == acc.positions[ids[vehicle]] + drawn
        over == raw > e.distance * Scale
        pos1 == IF over THEN e.distance * Scale ELSE raw
        spd1 == IF over THEN 0 ELSE drawn
        leader_pos == acc.positions[ids[sorted[i - 1]]]
        close == i > 1 /\ pos1 >= leader_pos - SafeDistance
        new_pos == IF close THEN leader_pos - SafeDistance ELSE pos1
        veh_speed == IF close THEN 0 ELSE spd1
    IN  [positions |-> [acc.positions EXCEPT ![ids[vehicle]] = new_pos],
         speed     |-> [acc.speed EXCEPT ![vehicle] = veh_speed]]

RECURSIVE FluidScan(_, _, _, _, _)
FluidScan(acc, e, sorted, i, ids) ==
    IF i > Len(sorted) THEN {acc}
    ELSE UNION {FluidScan(FluidMove(acc, e, sorted, i, ids, var), e, sorted, i + 1, ids)
                    : var \in FluidVariances(e, Len(e.vehicles))}

(* a vehicle of the list whose id has no entry in positions: KeyError *)
FluidKeyError(e, ids) == \E i \in DOMAIN e.vehicles : ids[e.vehicles[i]] \notin DOMAIN e.positions

(* update(): the set of possible results [edge, speed, err] *)
Fluid_update(e, sp, ids) ==
    IF e.vehicles = <<>> THEN {[edge |-> e, speed |-> sp, err |-> ""]}
    ELSE IF FluidKeyError(e, ids) THEN {[edge |-> e, speed |-> sp, err |-> "KeyError"]}
    ELSE {[edge |-> [e EXCEPT !.positions = acc.positions], speed |-> acc.speed, err |-> ""]
            : acc \in FluidScan([positions |-> e.positions, speed |-> sp], e,
                                SortedDesc(e.vehicles, e.positions, ids), 1, ids)}

(* max(vehicles, key = position): the first vehicle of the list at the greatest position *)
FluidLeader(e, ids) ==
    LET best == CHOOSE i \in DOMAIN e.vehicles :
                    /\ \A j \in DOMAIN e.vehicles :
                           e.positions[ids[e.vehicles[j]]] <= e.positions[ids[e.vehicles[i]]]
                    /\ \A j \in 1..(i - 1) :
                           e.positions[ids[e.vehicles[j]]] < e.positions[ids[e.vehicles[i]]]
    IN  e.vehicles[best]

(* peek_last_vehicle: [veh, err], veh = None when no vehicle is at the exit *)
Fluid_peek_last_vehicle(e, ids) ==
    IF e.vehicles = <<>> THEN [veh |-> None, err |-> ""]
    ELSE IF FluidKeyError(e, ids) THEN [veh |-> None, err |-> "KeyError"]
    ELSE LET leader == FluidLeader(e, ids)
         IN  IF e.positions[ids[leader]] >= e.distance * Scale - SafeDistance
             THEN [veh |-> leader, err |-> ""]
             ELSE [veh |-> None, err |-> ""]

(* a pop that forgets the position entry of the vehicle it removes *)
Fluid_pop_keeps_position(e, ids) ==
    LET peeked == Fluid_peek_last_vehicle(e, ids)
    IN  IF peeked.veh # None
        THEN [edge |-> [e EXCEPT !.vehicles = RemoveFirst(@, peeked.veh)],
              veh |-> peeked.veh, err |-> ""]
        ELSE [edge |-> e, veh |-> None, err |-> peeked.err]

(* pop_last_vehicle: [edge, veh, err] *)
Fluid_pop_last_vehicle(e, ids) ==
    LET peeked == Fluid_peek_last_vehicle(e, ids)
    IN  IF peeked.veh # None
        THEN [edge |-> [e EXCEPT !.vehicles = RemoveFirst(@, peeked.veh),
                                 !.positions = MapDel(@, ids[peeked.veh])],
              veh |-> peeked.veh, err |-> ""]
        ELSE [edge |-> e, veh |-> None, err |-> peeked.err]

-----------------------------------------------------------------------------
(* Intersection controllers (models/intersections) *)

NoLight ==
    [kind |-> "none", incoming_nodes |-> <<>>, duration |-> 0,
     current_green_idx |-> 0, timer |-> 0]

(* a plain BaseIntersection: update does nothing, can_pass is True *)
BaseIntersection ==
    [kind |-> "base", incoming_nodes |-> <<>>, duration |-> 0,
     current_green_idx |-> 0, timer |-> 0]

TrafficLightIntersection(incoming_nodes, duration) ==
    [kind |-> "traffic_light", incoming_nodes |-> incoming_nodes,
     duration |-> duration, current_green_idx |-> 0, timer |-> 0]

(* A controller that switches one update late: timer > duration instead of >= *)
TL_update_Late(l) ==
    IF l.incoming_nodes = <<>> THEN l
    ELSE IF l.timer + 1 > l.duration
         THEN [l EXCEPT !.timer = 0,
                        !.current_green_idx = (@ + 1) % Len(l.incoming_nodes)]
         ELSE [l EXCEPT !.timer = @ + 1]

(* A controller that lets every listed node pass, whichever is active *)
TL_can_pass_Listed(l, src_node) ==
    IF l.incoming_nodes = <<>> THEN TRUE
    ELSE \E k \in DOMAIN l.incoming_nodes : src_node = l.incoming_nodes[k]

(* A controller that advances the green index without wrapping around *)
TL_update_NoWrap(l) ==
    IF l.incoming_nodes = <<>> THEN l
    ELSE IF l.timer + 1 >= l.duration
         THEN [l EXCEPT !.timer = 0, !.current_green_idx = @ + 1]
         ELSE [l EXCEPT !.timer = @ + 1]

(* TrafficLightIntersection.update *)
TL_update(l) ==
    IF l.incoming_nodes = <<>> THEN l
    ELSE IF l.timer + 1 >= l.duration
         THEN [l EXCEPT !.timer = 0,
                        !.current_green_idx = (@ + 1) % Len(l.incoming_nodes)]
         ELSE [l EXCEPT !.timer = @ + 1]

(* TrafficLightIntersection.can_pass; incoming_nodes is 0-indexed in the source *)
TL_can_pass(l, src_node) ==
    IF l.incoming_nodes = <<>> THEN TRUE
    ELSE src_node = l.incoming_nodes[l.current_green_idx + 1]

(* A display that shows green to the first listed node, whichever is active *)
TL_get_state_First(l, src_node) ==
    IF l.incoming_nodes = <<>> THEN "GREEN"
    ELSE IF src_node = l.incoming_nodes[1] THEN "GREEN" ELSE "RED"

(* TrafficLightIntersection.get_state *)
TL_get_state(l, src_node) ==
    IF l.incoming_nodes = <<>> THEN "GREEN"
    ELSE IF src_node = l.incoming_nodes[l.current_green_idx + 1] THEN "GREEN" ELSE "RED"

(* method dispatch on the controller's class *)
update(l) == IF l.kind = "traffic_light" THEN TL_update(l) ELSE l

can_pass(l, src_node) ==
    IF l.kind = "traffic_light" THEN TL_can_pass(l, src_node) ELSE TRUE

get_state(l, src_node) ==
    IF l.kind = "traffic_light" THEN TL_get_state(l, src_node) ELSE "GREEN"

(* RoadGraph.update_intersections *)
update_intersections(lights) ==
    [n \in DOMAIN lights |-> IF lights[n].kind = "none" THEN lights[n] ELSE update(lights[n])]

-----------------------------------------------------------------------------
(* RoadGraph (core/graph.py) *)

(* get_edge(a, b): the index of the edge object, 0 when it raises RuntimeError *)
get_edge(g, a, b) ==
    IF \E i \in DOMAIN g.edgeList : g.edgeList[i].src = a /\ g.edgeList[i].dst = b
    THEN CHOOSE i \in DOMAIN g.edgeList : g.edgeList[i].src = a /\ g.edgeList[i].dst = b
    ELSE 0

-----------------------------------------------------------------------------
(* Vehicle (entities/vehicle.py) *)

(* next_target's None *)
NoNode == "None"

next_target(p) == IF Len(p) > 0 THEN p[1] ELSE NoNode

pop_next_target(p) == IF p # <<>> THEN Tail(p) ELSE p

-----------------------------------------------------------------------------
(* Route planning: the edge costs and RoadGraph.get_path, which calls      *)
(* networkx.astar_path with the Euclidean heuristic.  A graph that is      *)
(* searched carries xy, the coordinates given to add_node.                 *)

(* A cost that applies each penalty from its threshold on: >= 50%, >= 80% *)
Cellular_weight_FromThreshold(e) ==
    LET num_vehicles == CellularOccupied(e)
    IN  IF 5 * num_vehicles >= 4 * e.distance THEN e.distance * Scale * 3
        ELSE IF 2 * num_vehicles >= e.distance THEN (e.distance * Scale * 3) \div 2
        ELSE e.distance * Scale

(* CellularEdge.evaluate_weight: distance, times 1.5 above 50% occupation, *)
(* times 3 above 80% (fixed point)                                         *)
Cellular_evaluate_weight(e) ==
    LET num_vehicles == CellularOccupied(e)
    IN  IF 5 * num_vehicles > 4 * e.distance THEN e.distance * Scale * 3
        ELSE IF 2 * num_vehicles > e.distance THEN (e.distance * Scale * 3) \div 2
        ELSE e.distance * Scale

(* float('inf'), the base_time of a FluidEdge whose vmax is not positive *)
Infinity == 1000000

(* FluidEdge.evaluate_weight: distance / vmax on an empty edge (inf when   *)
(* vmax is not positive), else -1 when the current speed is not positive,  *)
(* else distance / (vmax * max(0.01, 1 - (density / density_max)^2))       *)
Fluid_evaluate_weight(e) ==
    LET count == Len(e.vehicles)
        raw == FactorDen(e) - (count * e.dens_den) * (count * e.dens_den)
        base_time == IF e.vmax > 0 THEN (e.distance * Scale) \div e.vmax ELSE Infinity
    IN  IF count = 0 THEN base_time
        ELSE IF e.vmax <= 0 THEN 0 - Scale
        ELSE IF 100 * raw >= FactorDen(e)
             THEN (e.distance * Scale * FactorDen(e)) \div (e.vmax * raw)
             ELSE (e.distance * Scale * 100) \div e.vmax

(* dynamic_weight: the evaluate_weight of the edge's class *)
dynamic_weight(e) ==
    IF e.kind = "cellular" THEN Cellular_evaluate_weight(e) ELSE Fluid_evaluate_weight(e)

(* math.sqrt, on the squares the maps use; the floor elsewhere *)
Sqrt(n) == CHOOSE r \in 0..n : r * r <= n /\ n < (r + 1) * (r + 1)

(* euclidean_heuristic(u, v); 0 when a node has no coordinates (KeyError) *)
euclidean_heuristic(g, u, v) ==
    IF u \in DOMAIN g.xy /\ v \in DOMAIN g.xy
    THEN LET dx == g.xy[u][1] - g.xy[v][1]
             dy == g.xy[u][2] - g.xy[v][2]
         IN  Sqrt((dx * dx + dy * dy) * Scale * Scale)
    ELSE 0

(* An adjacency that offers every edge of the graph, whatever its source *)
SuccessorsAll(g, n) == [i \in DOMAIN g.edgeList |-> i]

(* the adjacency of node n: its outgoing edges, in insertion order *)
RECURSIVE Successors(_, _)
Successors(g, n) ==
    IF g.edgeList = <<>> THEN <<>>
    ELSE LET front == [g EXCEPT !.edgeList = SubSeq(@, 1, Len(@) - 1)]
             i == Len(g.edgeList)
         IN  IF g.edgeList[i].src = n
             THEN Append(Successors(front, n), i)
             ELSE Successors(front, n)

(* astar_path's "path.append(node); node = explored[node]" loop, reversed *)
RECURSIVE AstarPath(_, _)
AstarPath(explored, node) ==
    IF node = NoNode THEN <<>>
    ELSE Append(AstarPath(explored, explored[node]), node)

(* astar_path's loop over the neighbours of curnode; st = [queue, enqueued, c] *)
RECURSIVE AstarRelax(_, _, _, _, _, _, _, _)
AstarRelax(st, g, weight, target, curnode, dist, succ, k) ==
    IF k > Len(succ) THEN st
    ELSE LET neighbor == g.edgeList[succ[k]].dst
             ncost == dist + weight[succ[k]]
             known == neighbor \in DOMAIN st.enqueued
             h == IF known THEN st.enqueued[neighbor].h
                  ELSE euclidean_heuristic(g, neighbor, target)
             st1 == IF known /\ st.enqueued[neighbor].cost <= ncost
                    THEN st
                    ELSE [queue    |-> st.queue \cup
                                         {[f |-> ncost + h, c |-> st.c, node |-> neighbor,
                                           dist |-> ncost, parent |-> curnode]},
                          enqueued |-> MapPut(st.enqueued, neighbor,
                                              [cost |-> ncost, h |-> h]),
                          c        |-> st.c + 1]
         IN  AstarRelax(st1, g, weight, target, curnode, dist, succ, k + 1)

(* astar_path's main loop: pops the entry of least (f, c) until the target *)
(* is popped or the queue is empty (NetworkXNoPath)                        *)
RECURSIVE AstarLoop(_, _, _, _, _)
AstarLoop(st, g, weight, target, explored) ==
    IF st.queue = {} THEN [path |-> <<>>, err |-> "NetworkXNoPath"]
    ELSE LET item == CHOOSE q \in st.queue :
                        \A r \in st.queue : q.f < r.f \/ (q.f = r.f /\ q.c <= r.c)
             rest == [st EXCEPT !.queue = @ \ {item}]
         IN  IF item.node = target
             THEN [path |-> Append(AstarPath(explored, item.parent), item.node), err |-> ""]
             ELSE IF /\ item.node \in DOMAIN explored
                     /\ \/ explored[item.node] = NoNode
                        \/ st.enqueued[item.node].cost < item.dist
             THEN AstarLoop(rest, g, weight, target, explored)
             ELSE AstarLoop(AstarRelax(rest, g, weight, target, item.node, item.dist,
                                       Successors(g, item.node), 1),
                            g, weight, target, MapPut(explored, item.node, item.parent))

(* networkx.astar_path(G, source, target, heuristic, weight) *)
astar_path(g, weight, source, target) ==
    IF source \notin g.nodes \/ target \notin g.nodes
    THEN [path |-> <<>>, err |-> "NodeNotFound"]
    ELSE AstarLoop([queue    |-> {[f |-> 0, c |-> 0, node |-> source,
                                   dist |-> 0, parent |-> NoNode]},
                    enqueued |-> EmptyMap,
                    c        |-> 1],
                   g, weight, target, EmptyMap)

(* get_path(src, dst, eval_func): NetworkXNoPath becomes a RuntimeError; *)
(* weight[i] is eval_func on edge i                                       *)
get_path(g, weight, src, dst) ==
    LET found == astar_path(g, weight, src, dst)
    IN  IF found.err = "NetworkXNoPath"
        THEN [path |-> <<>>, err |-> "RuntimeError"]
        ELSE found

-----------------------------------------------------------------------------
(* Simulation (core/simulation.py).  A world w is the state a step works   *)
(* on: [edges, vehicles, vid, path, current_edge, speed, events, crashed]. *)

(* insert_vehicle, dispatched on the edge's class *)
insert_vehicle(e, sp, ids, v) ==
    IF e.kind = "cellular" THEN Cellular_insert_vehicle(e, sp, v)
    ELSE Fluid_insert_vehicle(e, sp, ids, v)

(* remove_vehicle_safely: list.remove, a ValueError is swallowed *)
remove_vehicle_safely(live, v) == RemoveFirst(live, v)

Event(i, v, kind, next, before) ==
    [edge |-> i, veh |-> v, kind |-> kind, next |-> next, before |-> before]

(* lines 100-143 for a FluidEdge i whose peek_last_vehicle returned vehicle *)
Transfer(w, g, lights, i, vehicle) ==
    LET src == g.edgeList[i].src
        dst == g.edgeList[i].dst
        before == w.path[vehicle]
        path1 == pop_next_target(before)
        next_node == next_target(path1)
        popped == Fluid_pop_last_vehicle(w.edges[i], w.vid)
        next_edge == get_edge(g, dst, next_node)
    IN  IF lights[dst].kind # "none" /\ ~can_pass(lights[dst], src)
        THEN [w EXCEPT !.events = Append(@, Event(i, vehicle, "blocked", 0, before))]
        ELSE IF next_node = NoNode
        THEN [w EXCEPT !.path[vehicle] = path1,
                       !.edges[i] = popped.edge,
                       !.vehicles = remove_vehicle_safely(@, vehicle),
                       !.events = Append(@, Event(i, vehicle, "arrived", 0, before))]
        ELSE IF next_edge = 0
        THEN [w EXCEPT !.path[vehicle] = path1,
                       !.edges[i] = popped.edge,
                       !.vehicles = remove_vehicle_safely(@, vehicle),
                       !.events = Append(@, Event(i, vehicle, "invalid", 0, before))]
        ELSE LET ins == insert_vehicle(w.edges[next_edge], w.speed, w.vid, vehicle)
                 edges1 == [w.edges EXCEPT ![next_edge] = ins.edge]
             IN  IF ins.ok
                 THEN [w EXCEPT !.path[vehicle] = path1,
                                !.speed = ins.speed,
                                !.edges = [edges1 EXCEPT ![i] =
                                              Fluid_pop_last_vehicle(edges1[i], w.vid).edge],
                                !.current_edge[vehicle] = next_edge,
                                !.events = Append(@, Event(i, vehicle, "moved", next_edge, before))]
                 ELSE [w EXCEPT !.path[vehicle] = Cons(next_node, path1),
                                !.speed = ins.speed,
                                !.edges = edges1,
                                !.events = Append(@, Event(i, vehicle, "failed", next_edge, before))]

(* the body of the loop over get_edges() for edge i: lines 92-143 *)
EdgeStep(w, g, lights, i) ==
    IF w.crashed # "" THEN {w}
    ELSE IF w.edges[i].kind = "cellular"
    THEN \* update(), then BaseEdge.peek_last_vehicle raises NotImplementedError
         {[w EXCEPT !.edges[i] = u.edge, !.speed = u.speed,
                    !.crashed = IF u.err # "" THEN u.err ELSE "NotImplementedError"]
            : u \in Cellular_update(w.edges[i], w.speed, TRUE)}
    ELSE {LET w1 == [w EXCEPT !.edges[i] = u.edge, !.speed = u.speed]
              peeked == Fluid_peek_last_vehicle(u.edge, w.vid)
          IN  IF u.err # "" THEN [w1 EXCEPT !.crashed = u.err]
              ELSE IF peeked.err # "" THEN [w1 EXCEPT !.crashed = peeked.err]
              ELSE IF peeked.veh = None THEN w1
              ELSE Transfer(w1, g, lights, i, peeked.veh)
            : u \in Fluid_update(w.edges[i], w.speed, w.vid)}

(* VehicleSpawner (entities/vehicle_spawner.py).  A spawner is the record *)
(* [spawn_ratio, node], spawn_ratio in percent; the simulation's spawners  *)
(* are fixed once the map is loaded and are kept with it, in g.spawners.   *)

MaxIds == 3

(* the ids "auto_" + 5 hexadecimal digits of a uuid4 *)
AutoIds == 1..MaxIds

VehicleSpawner(spawn_ratio, node) == [spawn_ratio |-> spawn_ratio, node |-> node]

Spawners(g) == IF "spawners" \in DOMAIN g THEN g.spawners ELSE <<>>

(* the outcomes of random.random() > spawn_ratio, random() in [0, 1) *)
SkipDraws(spawn_ratio) == {skip \in BOOLEAN : skip => spawn_ratio < 100}

(* a path that keeps the starting node *)
WholeRoute(route) == route

(* path[1:]: the vehicle's path excludes the starting node *)
RouteAhead(route) == Tail(route)

(* Vehicle(...): the object constructed next *)
NewVehicle(ids) == CHOOSE v \in Objs : ids[v] = None /\ \A u \in Objs : u < v => ids[u] # None

(* lines 75-98 of update once destination and veh_id are drawn: [world, veh] *)
Spawn(w, g, spawner, destination, veh_id) ==
    LET found == get_path(g, [i \in DOMAIN w.edges |-> dynamic_weight(w.edges[i])],
                          spawner.node, destination)
        route == found.path
        vehicle == NewVehicle(w.vid)
        start_edge == get_edge(g, spawner.node, route[2])
        created == [w EXCEPT !.vid[vehicle] = veh_id,
                             !.path[vehicle] = RouteAhead(route),
                             !.current_edge[vehicle] = None,
                             !.speed[vehicle] = 0]
        ins == insert_vehicle(created.edges[start_edge], created.speed, created.vid, vehicle)
        placed == [created EXCEPT !.edges[start_edge] = ins.edge, !.speed = ins.speed]
    IN  IF found.err = "RuntimeError" THEN [world |-> w, veh |-> None]
        ELSE IF found.err # "" THEN [world |-> [w EXCEPT !.crashed = found.err], veh |-> None]
        ELSE IF Len(route) < 2 THEN [world |-> w, veh |-> None]
        ELSE IF ins.ok
        THEN [world |-> [placed EXCEPT !.events =
                            Append(@, Event(start_edge, vehicle, "spawned", 0, route))],
              veh   |-> vehicle]
        ELSE [world |-> [placed EXCEPT !.events =
                            Append(@, Event(start_edge, vehicle, "refused", 0, route))],
              veh   |-> None]

(* update(graph): the set of possible results [world, veh] *)
Spawner_update(w, g, spawner) ==
    LET possible_destinations == g.nodes \ {spawner.node}
        Drawn(skip) ==
            IF skip \/ possible_destinations = {} THEN {[world |-> w, veh |-> None]}
            ELSE {Spawn(w, g, spawner, destination, veh_id) :
                     destination \in possible_destinations, veh_id \in AutoIds}
    IN  UNION {Drawn(skip) : skip \in SkipDraws(spawner.spawn_ratio)}

(* the loop over the spawners: lines 84-89 *)
RECURSIVE SpawnerLoop(_, _, _)
SpawnerLoop(ws, g, k) ==
    IF k > Len(Spawners(g)) THEN ws
    ELSE SpawnerLoop(
             UNION {IF w.crashed # "" THEN {w}
                    ELSE {IF r.veh # None
                          THEN [r.world EXCEPT !.vehicles = Append(@, r.veh)]
                          ELSE r.world
                            : r \in Spawner_update(w, g, Spawners(g)[k])}
                      : w \in ws},
             g, k + 1)

RECURSIVE EdgeLoop(_, _, _, _)
EdgeLoop(ws, g, lights, i) ==
    IF i > Len(g.edgeList) THEN ws
    ELSE EdgeLoop(UNION {EdgeStep(w, g, lights, i) : w \in ws}, g, lights, i + 1)

(* internal_step after update_intersections: the set of worlds it can end in *)
internal_step(w, g, lights) ==
    EdgeLoop(SpawnerLoop({[w EXCEPT !.events = <<>>]}, g, 1), g, lights, 1)

World ==
    [edges |-> edges, vehicles |-> vehicles, vid |-> vid, path |-> path,
     current_edge |-> current_edge, speed |-> speed, events |-> events,
     crashed |-> crashed]

SetWorld(w) ==
    /\ edges' = w.edges
    /\ vehicles' = w.vehicles
    /\ vid' = w.vid
    /\ path' = w.path
    /\ current_edge' = w.current_edge
    /\ speed' = w.speed
    /\ events' = w.events
    /\ crashed' = w.crashed

(* tick() when the accumulator allows a step: t += 1, then internal_step() *)
Step ==
    /\ crashed = ""
    /\ t < MaxTicks
    /\ Cardinality({v \in Objs : vid[v] = None}) >= Len(Spawners(graph))
    /\ t' = t + 1
    /\ intersections' = update_intersections(intersections)
    /\ \E w \in internal_step(World, graph, intersections') : SetWorld(w)
    /\ UNCHANGED <<graph, returned,
                   clock>>

(* the next unused vehicle object: Vehicle(...) constructs a new one *)
Fresh(v) == vid[v] = None /\ \A u \in Objs : u < v => vid[u] # None

(* the paths a loaded vehicle starting on edge i may carry: the node it is *)
(* driving to, then nothing, a successor of that node, or (a pathing       *)
(* defect) the node it came from                                           *)
StartPaths(g, i) ==
    LET src == g.edgeList[i].src
        dst == g.edgeList[i].dst
    IN  {<<dst>>} \cup {<<dst, n>> : n \in {m \in g.nodes : get_edge(g, dst, m) # 0} \cup {src}}

(* add_vehicle(Vehicle(id, p), edges[i]); the result of insert_vehicle is ignored *)
AddVehicle(v, i, p) ==
    /\ crashed = ""
    /\ t = 0    \* main.py adds the loaded vehicles before the tick loop starts
    /\ Fresh(v)
    /\ edges[i].kind = "cellular" =>
           (edges[i].cells[0] = None \/ Len(edges[i].entry_queue) < MaxQueue)
    /\ LET ids == [vid EXCEPT ![v] = v]
           ins == insert_vehicle(edges[i], speed, ids, v)
       IN  /\ vid' = ids
           /\ path' = [path EXCEPT ![v] = p]
           /\ current_edge' = [current_edge EXCEPT ![v] = i]
           /\ edges' = [edges EXCEPT ![i] = ins.edge]
           /\ speed' = ins.speed
           /\ vehicles' = Append(vehicles, v)
    /\ UNCHANGED <<graph, intersections, t, crashed, events, returned,
                   clock>>

-----------------------------------------------------------------------------
(* Maps *)

Edge(src, dst) == [src |-> src, dst |-> dst]

NoLights == [n \in Nodes |-> NoLight]

(* density_max 0.5 on 4 m: max_vehicles 2, flow speed 1.5 alone, 0 when full *)
FluidRoad == FluidEdge(4, 2, 1, 2)

(* 2 m at density_max 1.0: one update can take a lone vehicle to the exit *)
FluidShortRoad == FluidEdge(2, 2, 1, 1)

LineNodes == {"A", "B", "C"}

Line(first, second) ==
    [nodes |-> LineNodes, edgeList |-> <<Edge("A", "B"), Edge("B", "C")>>,
     objects |-> <<first, second>>]

LineReversed(first, second) ==
    [nodes |-> LineNodes, edgeList |-> <<Edge("B", "C"), Edge("A", "B")>>,
     objects |-> <<second, first>>]

(* two roads joining at B, the joined road first in get_edges() order *)
Merge ==
    [nodes |-> Nodes,
     edgeList |-> <<Edge("B", "D"), Edge("A", "B"), Edge("C", "B")>>,
     objects |-> <<FluidRoad, FluidRoad, FluidRoad>>]

(* the end-to-end map: 20 cells at vmax 5, 30 cells at vmax 11, prob_slow 0.1 *)
EndToEnd == Line(CellularEdge(20, 5, 10), CellularEdge(30, 11, 10))

CellRoad == CellularEdge(2, 1, 50)

(* the 1-cell road of the spillback scenario *)
OneCellRoad == CellularEdge(1, 1, 50)

(* a scenario: a map and the controller attached to B *)
Scenario(m, l) == [map |-> m, light |-> l]

Scenarios ==
    {Scenario(Line(FluidRoad, FluidRoad), l) :
        l \in {NoLight, BaseIntersection,
               TrafficLightIntersection(<<>>, 1),
               TrafficLightIntersection(<<"C">>, 1),
               TrafficLightIntersection(<<"C", "A">>, 2)}} \cup
    {Scenario(m, NoLight) :
        m \in {LineReversed(FluidRoad, FluidRoad),
               Line(FluidRoad, FluidShortRoad),
               Merge,
               Line(FluidShortRoad, OneCellRoad),
               LineReversed(FluidShortRoad, OneCellRoad),
               Line(CellRoad, OneCellRoad),
               Line(OneCellRoad, OneCellRoad),
               EndToEnd}} \cup
    {Scenario(Line(OneCellRoad, OneCellRoad), l) :
        l \in {TrafficLightIntersection(<<"C", "A">>, 2),
               TrafficLightIntersection(<<"C">>, 1)}}

Init ==
    /\ \E sc \in Scenarios :
          /\ graph = [nodes |-> sc.map.nodes, edgeList |-> sc.map.edgeList]
          /\ edges = sc.map.objects
          /\ intersections = [NoLights EXCEPT !["B"] = sc.light]
    /\ vehicles = <<>>
    /\ vid = [v \in Objs |-> None]
    /\ path = [v \in Objs |-> <<>>]
    /\ current_edge = [v \in Objs |-> None]
    /\ speed = [v \in Objs |-> 0]
    /\ t = 0
    /\ crashed = ""
    /\ events = <<>>
    /\ returned = NoReturn
    /\ InitClock

Next ==
    \/ \E v \in Objs : \E i \in DOMAIN edges : \E p \in StartPaths(graph, i) : AddVehicle(v, i, p)
    \/ Step

Spec == Init /\ [][Next]_vars

-----------------------------------------------------------------------------
(* A CellularEdge driven directly by a caller that owns the vehicles: it   *)
(* inserts a vehicle it holds (never accepted yet, refused before, or      *)
(* handed back by update) and calls update with either value of allow_exit *)

MaxVmax == 2

SingleRoad == [nodes |-> {"A", "B"}, edgeList |-> <<Edge("A", "B")>>]

InitCell ==
    /\ graph = SingleRoad
    /\ \E d \in 1..MaxCells : \E vm \in 1..MaxVmax : \E ps \in {0, 50, 100} :
          edges = <<CellularEdge(d, vm, ps)>>
    /\ intersections = NoLights
    /\ vehicles = <<>>
    /\ vid = [v \in Objs |-> v]
    /\ path = [v \in Objs |-> <<>>]
    /\ current_edge = [v \in Objs |-> None]
    /\ speed = [v \in Objs |-> 0]
    /\ t = 0
    /\ crashed = ""
    /\ events = <<>>
    /\ returned = NoReturn
    /\ InitClock

(* edge.insert_vehicle(v); the caller keeps a vehicle whose insert returned False *)
CellInsert(v) ==
    /\ current_edge[v] = None
    /\ edges[1].cells[0] = None \/ Len(edges[1].entry_queue) < MaxQueue
    /\ LET ins == Cellular_insert_vehicle(edges[1], speed, v)
       IN  /\ edges' = [edges EXCEPT ![1] = ins.edge]
           /\ speed' = ins.speed
           /\ current_edge' = IF ins.ok THEN [current_edge EXCEPT ![v] = 1] ELSE current_edge
    /\ UNCHANGED <<graph, intersections, vehicles, vid, path, t, crashed, events, returned,
                   clock>>

(* edge.update(allow_exit); the vehicles it returns are back with the caller *)
CellUpdate(allow_exit) ==
    /\ \E u \in Cellular_update(edges[1], speed, allow_exit) :
          /\ edges' = [edges EXCEPT ![1] = u.edge]
          /\ speed' = u.speed
          /\ crashed' = u.err
          /\ current_edge' = [v \in Objs |->
                                IF v \in Range(u.exiting) THEN None ELSE current_edge[v]]
          /\ events' = [k \in DOMAIN u.exiting |-> Event(1, u.exiting[k], "exiting", 0, <<>>)]
    /\ UNCHANGED <<graph, intersections, vehicles, vid, path, t, returned,
                   clock>>

NextCell ==
    \/ \E v \in Objs : CellInsert(v)
    \/ \E allow_exit \in BOOLEAN : CellUpdate(allow_exit)

SpecCell == InitCell /\ [][NextCell]_vars

-----------------------------------------------------------------------------
(* The traffic light alone: a simulation over a map without roads, whose   *)
(* step is update_intersections and t += 1                                 *)

MaxDuration == 3

(* the lists of distinct nodes of S *)
RECURSIVE DistinctSeqs(_)
DistinctSeqs(S) ==
    {<<>>} \cup UNION {{<<n>> \o q : q \in DistinctSeqs(S \ {n})} : n \in S}

InitLight ==
    /\ graph = [nodes |-> Nodes, edgeList |-> <<>>]
    /\ edges = <<>>
    /\ \E inc \in DistinctSeqs(Nodes \ {"B"}) : \E d \in 1..MaxDuration :
          intersections = [NoLights EXCEPT !["B"] = TrafficLightIntersection(inc, d),
                                           !["C"] = BaseIntersection]
    /\ vehicles = <<>>
    /\ vid = [v \in Objs |-> None]
    /\ path = [v \in Objs |-> <<>>]
    /\ current_edge = [v \in Objs |-> None]
    /\ speed = [v \in Objs |-> 0]
    /\ t = 0
    /\ crashed = ""
    /\ events = <<>>
    /\ returned = NoReturn
    /\ InitClock

SpecLight == InitLight /\ [][Step]_vars

-----------------------------------------------------------------------------
(* Route planning on loaded maps: vehicles are added to the edges and      *)
(* get_path is called with dynamic_weight, as VehicleSpawner.update does   *)

(* node coordinates: every node at the origin, a kite around the A-D axis, *)
(* and two layouts with one middle node on D and the other 8 away from it  *)
Flat == [n \in Nodes |-> <<0, 0>>]

Kite == ("A" :> <<0, 0>>) @@ ("B" :> <<3, 4>>) @@ ("C" :> <<3, -4>>) @@ ("D" :> <<6, 0>>)

FarC == ("A" :> <<0, 0>>) @@ ("B" :> <<6, 0>>) @@ ("C" :> <<6, 8>>) @@ ("D" :> <<6, 0>>)

FarB == ("A" :> <<0, 0>>) @@ ("B" :> <<6, 8>>) @@ ("C" :> <<6, 0>>) @@ ("D" :> <<6, 0>>)

Layouts == {Flat, Kite, FarC, FarB}

(* two routes from A to D, through B and through C, of the same length *)
DiamondEdges == <<Edge("A", "B"), Edge("A", "C"), Edge("B", "D"), Edge("C", "D")>>

Diamond(xy, near, far) ==
    [nodes |-> Nodes, edgeList |-> DiamondEdges, xy |-> xy,
     objects |-> <<CellularEdge(near, 1, 50), CellularEdge(far, 1, 50),
                   CellularEdge(far, 1, 50), CellularEdge(near, 1, 50)>>]

(* a loop between A and B, and no way from there to C or D *)
Island(xy) ==
    [nodes |-> Nodes,
     edgeList |-> <<Edge("A", "B"), Edge("B", "A"), Edge("C", "D")>>, xy |-> xy,
     objects |-> <<OneCellRoad, OneCellRoad, OneCellRoad>>]

(* a detour A -> B -> C -> D next to the direct road A -> D, on three nodes *)
(* of which C was never given to add_node with coordinates                 *)
Detour(xy) ==
    [nodes |-> Nodes,
     edgeList |-> <<Edge("A", "B"), Edge("A", "D"), Edge("B", "C"), Edge("C", "D"),
                    Edge("D", "A")>>,
     xy |-> [n \in Nodes \ {"C"} |-> xy[n]],
     objects |-> <<OneCellRoad, CellularEdge(3, 1, 50), OneCellRoad, OneCellRoad,
                   OneCellRoad>>]

PathMaps ==
    {Diamond(xy, 1, 1) : xy \in Layouts} \cup {Diamond(xy, 1, 2) : xy \in Layouts} \cup
    {Island(xy) : xy \in {Flat, Kite}} \cup {Detour(xy) : xy \in {Flat, Kite}}

InitPath ==
    /\ \E m \in PathMaps :
          /\ graph = [nodes |-> m.nodes, edgeList |-> m.edgeList, xy |-> m.xy]
          /\ edges = m.objects
    /\ intersections = NoLights
    /\ vehicles = <<>>
    /\ vid = [v \in Objs |-> None]
    /\ path = [v \in Objs |-> <<>>]
    /\ current_edge = [v \in Objs |-> None]
    /\ speed = [v \in Objs |-> 0]
    /\ t = 0
    /\ crashed = ""
    /\ events = <<>>
    /\ returned = NoReturn
    /\ InitClock

(* graph.get_path(src, dst, dynamic_weight) at the current occupation *)
FindPath(src, dst) ==
    /\ returned' = Return("get_path", <<src, dst>>,
                          get_path(graph, [i \in DOMAIN edges |-> dynamic_weight(edges[i])],
                                   src, dst))
    /\ UNCHANGED <<graph, edges, intersections, vehicles, vid, path, current_edge,
                   speed, t, crashed, events,
                   clock>>

NextPath ==
    \/ \E v \in Objs : \E i \in DOMAIN edges : AddVehicle(v, i, <<graph.edgeList[i].dst>>)
    \/ \E src \in Nodes : \E dst \in Nodes : FindPath(src, dst)

SpecPath == InitPath /\ [][NextPath]_vars

-----------------------------------------------------------------------------
(* A simulation fed by spawners only: main.py loads the map, adds its      *)
(* spawners and runs the tick loop                                         *)

Spawning(m, xy, spawners) ==
    [nodes |-> m.nodes, edgeList |-> m.edgeList, objects |-> m.objects,
     xy |-> xy, spawners |-> spawners]

(* a single node and no road: a spawner there has no destination *)
Lonely == [nodes |-> {"A"}, edgeList |-> <<>>, objects |-> <<>>]

SpawnMaps ==
    {Spawning(Line(FluidRoad, FluidRoad), Kite, <<VehicleSpawner(50, "A")>>),
     Spawning(Line(FluidRoad, FluidShortRoad), Flat,
              <<VehicleSpawner(50, "A"), VehicleSpawner(50, "B")>>),
     Spawning(Line(FluidEdge(3, 1, 1, 2), FluidRoad), Flat, <<VehicleSpawner(100, "A")>>),
     Spawning(Line(OneCellRoad, OneCellRoad), Flat,
              <<VehicleSpawner(100, "A"), VehicleSpawner(0, "A")>>),
     Spawning(Line(FluidRoad, FluidRoad), Flat, <<VehicleSpawner(50, "C")>>),
     Spawning(Lonely, Flat, <<VehicleSpawner(100, "A")>>),
     Spawning(Diamond(Kite, 1, 1), Kite, <<VehicleSpawner(50, "A")>>)}

InitSpawn ==
    /\ \E m \in SpawnMaps :
          /\ graph = [nodes |-> m.nodes, edgeList |-> m.edgeList, xy |-> m.xy,
                      spawners |-> m.spawners]
          /\ edges = m.objects
    /\ intersections = NoLights
    /\ vehicles = <<>>
    /\ vid = [v \in Objs |-> None]
    /\ path = [v \in Objs |-> <<>>]
    /\ current_edge = [v \in Objs |-> None]
    /\ speed = [v \in Objs |-> 0]
    /\ t = 0
    /\ crashed = ""
    /\ events = <<>>
    /\ returned = NoReturn
    /\ InitClock

SpecSpawn == InitSpawn /\ [][Step]_vars

(* spawner.update(graph) called directly on spawner k of the map; the     *)
(* caller does what it likes with the vehicle it gets                      *)
SpawnerUpdate(k) ==
    /\ \E v \in Objs : vid[v] = None
    /\ \E r \in Spawner_update([World EXCEPT !.events = <<>>], graph, graph.spawners[k]) :
          /\ SetWorld(r.world)
          /\ returned' = Return("update", <<k>>, r.veh)
    /\ UNCHANGED <<graph, intersections, t,
                   clock>>

NextSpawner == \E k \in DOMAIN graph.spawners : SpawnerUpdate(k)

SpecSpawner == InitSpawn /\ [][NextSpawner]_vars

-----------------------------------------------------------------------------
(* The tick loop of main.py: "while simulation.running: simulation.tick()" *)
(* with the wall clock as an input                                         *)

MaxStall == 3

MaxBacklog == 4

MaxFrames == 6

(* what time() - start_time can measure: nothing, half a tick, one tick,   *)
(* or a stall of MaxStall ticks (slow rendering or I/O)                    *)
Elapsed == {0, tick_duration \div 2, tick_duration, MaxStall * tick_duration}

(* the outcomes of visualizer.handle_events(): FALSE when the window was closed *)
HandleEvents == BOOLEAN

(* an accumulator that is emptied by a step *)
DrainAll(accumulated, duration) == 0

(* since_last_update -= tick_duration *)
Drain(accumulated, duration) == accumulated - duration

(* Simulation.tick() *)
Tick ==
    /\ running
    /\ crashed = ""
    /\ t < MaxTicks
    /\ since_last_update <= MaxBacklog * tick_duration
    /\ visualizer.updates < MaxFrames
    /\ Cardinality({v \in Objs : vid[v] = None}) >= Len(Spawners(graph))
    /\ LET due == since_last_update >= tick_duration
           lights == IF due THEN update_intersections(intersections) ELSE intersections
           drained == IF due THEN Drain(since_last_update, tick_duration)
                      ELSE since_last_update
       IN  /\ t' = IF due THEN t + 1 ELSE t
           /\ intersections' = lights
           /\ \E w \in IF due THEN internal_step(World, graph, lights) ELSE {World} :
                 /\ SetWorld(w)
                 /\ IF w.crashed # ""
                    THEN \* the exception leaves tick() at line 61
                         UNCHANGED <<since_last_update, running, visualizer>>
                    ELSE IF visualizer.present
                    THEN /\ visualizer' = [visualizer EXCEPT !.updates = @ + 1]
                         /\ \E open \in HandleEvents :
                               /\ running' = open
                               /\ IF open
                                  THEN \E elapsed \in Elapsed :
                                          since_last_update' = drained + elapsed
                                  ELSE since_last_update' = drained
                    ELSE /\ \E elapsed \in Elapsed : since_last_update' = drained + elapsed
                         /\ UNCHANGED <<running, visualizer>>
    /\ UNCHANGED <<graph, returned, tick_duration>>

(* a crossroads without roads: a step only updates the light at B *)
Crossroads == [nodes |-> Nodes, edgeList |-> <<>>, objects |-> <<>>]

TickMaps ==
    {Spawning(Crossroads, Flat, <<>>),
     Spawning(Line(FluidEdge(3, 1, 1, 2), FluidRoad), Flat, <<VehicleSpawner(100, "A")>>),
     Spawning(Line(OneCellRoad, OneCellRoad), Flat, <<VehicleSpawner(100, "A")>>)}

(* run_simulation_from_file: Simulation(graph, tps, visualizer), running = True *)
InitTick ==
    /\ \E m \in TickMaps :
          /\ graph = [nodes |-> m.nodes, edgeList |-> m.edgeList, xy |-> m.xy,
                      spawners |-> m.spawners]
          /\ edges = m.objects
    /\ intersections = [NoLights EXCEPT !["B"] = TrafficLightIntersection(<<"A", "C">>, 2)]
    /\ vehicles = <<>>
    /\ vid = [v \in Objs |-> None]
    /\ path = [v \in Objs |-> <<>>]
    /\ current_edge = [v \in Objs |-> None]
    /\ speed = [v \in Objs |-> 0]
    /\ t = 0
    /\ crashed = ""
    /\ events = <<>>
    /\ returned = NoReturn
    /\ tick_duration \in {Scale, Scale \div 2}
    /\ since_last_update = 0
    /\ running = TRUE
    /\ \E present \in BOOLEAN : visualizer = [present |-> present, updates |-> 0]

SpecTick == InitTick /\ [][Tick]_vars

-----------------------------------------------------------------------------
(* The cost functions applied to one edge at every occupation.  Only the   *)
(* number of vehicles on the edge matters to them, so the vehicles of an   *)
(* occupied edge are numbered from 1 without regard to Objs.               *)

MaxRoad == 5

(* type(edge).evaluate_weight(u, v, data): [result, err]; a CellularEdge of *)
(* distance 0 divides by zero at "num_vehicles / edge.distance"            *)
evaluate_weight(e) ==
    IF e.kind = "cellular" /\ e.distance = 0
    THEN [result |-> 0, err |-> "ZeroDivisionError"]
    ELSE [result |-> dynamic_weight(e), err |-> ""]

(* a CellularEdge of d cells with vehicles in the cells of S *)
CellularWith(d, S) ==
    [CellularEdge(d, 1, 50) EXCEPT !.cells = [p \in 0..(d - 1) |-> IF p \in S THEN p + 1 ELSE None]]

(* a FluidEdge after k accepted inserts *)
FluidWith(e, k) ==
    [e EXCEPT !.vehicles = [i \in 1..k |-> i], !.positions = [i \in 1..k |-> 0]]

CostEdges ==
    UNION {{CellularWith(d, S) : S \in SUBSET (0..(d - 1))} : d \in 0..MaxRoad}
    \cup
    UNION {{FluidWith(FluidEdge(d, vm, 1, den), k) : k \in 0..(d \div den)}
              : d \in 1..MaxRoad, vm \in 0..MaxVmax, den \in {1, 2}}

InitCost ==
    /\ graph = SingleRoad
    /\ \E e \in CostEdges : edges = <<e>>
    /\ intersections = NoLights
    /\ vehicles = <<>>
    /\ vid = [v \in Objs |-> None]
    /\ path = [v \in Objs |-> <<>>]
    /\ current_edge = [v \in Objs |-> None]
    /\ speed = [v \in Objs |-> 0]
    /\ t = 0
    /\ crashed = ""
    /\ events = <<>>
    /\ returned = NoReturn
    /\ InitClock

(* dynamic_weight(u, v, data) called on the edge *)
EvaluateWeight ==
    /\ returned' = Return("evaluate_weight", <<>>, evaluate_weight(edges[1]))
    /\ UNCHANGED <<graph, edges, intersections, vehicles, vid, path, current_edge, speed,
                   t, crashed, events, clock>>

SpecCost == InitCost /\ [][EvaluateWeight]_vars

-----------------------------------------------------------------------------
(* Building a RoadGraph: add_node and add_edge called directly.  A graph   *)
(* under construction also carries order, the insertion order of its nodes *)
(* (networkx iterates edges by source node in that order).                 *)

MaxEdges == 2

BuildNodes == {"A", "B", "C"}

InsertAt(s, k, x) == SubSeq(s, 1, k) \o <<x>> \o SubSeq(s, k + 1, Len(s))

AppendNew(s, x) == IF x \in Range(s) THEN s ELSE Append(s, x)

IndexOf(s, x) == CHOOSE k \in DOMAIN s : s[k] = x

(* RoadGraph.add_node: networkx adds the node or updates its attributes *)
add_node(g, n, x, y) ==
    [g EXCEPT !.nodes = @ \cup {n},
              !.order = AppendNew(@, n),
              !.xy = MapPut(@, n, <<x, y>>)]

(* RoadGraph.add_edge: networkx creates the nodes it does not know, and     *)
(* replaces the data of an edge it already has; nothing is raised          *)
add_edge(g, objs, src, dst, edge_obj) ==
    LET i == get_edge(g, src, dst)
        order1 == AppendNew(AppendNew(g.order, src), dst)
        at == Cardinality({k \in DOMAIN g.edgeList :
                              IndexOf(order1, g.edgeList[k].src) <= IndexOf(order1, src)})
    IN  IF i # 0
        THEN [graph |-> g, objects |-> [objs EXCEPT ![i] = edge_obj], err |-> ""]
        ELSE [graph   |-> [g EXCEPT !.nodes = @ \cup {src, dst},
                                    !.order = order1,
                                    !.edgeList = InsertAt(@, at, Edge(src, dst))],
              objects |-> InsertAt(objs, at, edge_obj),
              err     |-> ""]

InitGraph ==
    /\ graph = [nodes |-> {}, edgeList |-> <<>>, xy |-> EmptyMap, order |-> <<>>]
    /\ edges = <<>>
    /\ intersections = NoLights
    /\ vehicles = <<>>
    /\ vid = [v \in Objs |-> None]
    /\ path = [v \in Objs |-> <<>>]
    /\ current_edge = [v \in Objs |-> None]
    /\ speed = [v \in Objs |-> 0]
    /\ t = 0
    /\ crashed = ""
    /\ events = <<>>
    /\ returned = NoReturn
    /\ InitClock

AddNode(n) ==
    /\ graph' = add_node(graph, n, Kite[n][1], Kite[n][2])
    /\ returned' = Return("add_node", <<n>>, "")
    /\ UNCHANGED <<edges, intersections, vehicles, vid, path, current_edge, speed, t,
                   crashed, events,
                   clock>>

AddEdge(src, dst, edge_obj) ==
    /\ get_edge(graph, src, dst) # 0 \/ Len(graph.edgeList) < MaxEdges
    /\ LET added == add_edge(graph, edges, src, dst, edge_obj)
       IN  /\ graph' = added.graph
           /\ edges' = added.objects
           /\ returned' = Return("add_edge", <<src, dst>>, added.err)
    /\ UNCHANGED <<intersections, vehicles, vid, path, current_edge, speed, t,
                   crashed, events,
                   clock>>

NextGraph ==
    \/ \E n \in BuildNodes : AddNode(n)
    \/ \E src \in BuildNodes : \E dst \in BuildNodes :
          \E edge_obj \in {CellRoad, OneCellRoad} : AddEdge(src, dst, edge_obj)

SpecGraph == InitGraph /\ [][NextGraph]_vars

-----------------------------------------------------------------------------
(* One edge of either class driven directly by a caller that owns the      *)
(* vehicles: every method of the edge interface is called on edges[1], and *)
(* returned records the call, its arguments and [result, err].             *)

(* a ratio that also counts the vehicles waiting in the entry queue *)
OccupationWithQueue(e) ==
    IF e.kind = "cellular"
    THEN IF e.distance > 0
         THEN <<CellularOccupied(e) + Len(e.entry_queue), e.distance>>
         ELSE <<0, 1>>
    ELSE <<Len(e.vehicles), Max2(e.max_vehicles, 1)>>

(* get_occupation_ratio, as the fraction <<numerator, denominator>> *)
get_occupation_ratio(e) ==
    IF e.kind = "cellular"
    THEN IF e.distance > 0 THEN <<CellularOccupied(e), e.distance>> ELSE <<0, 1>>
    ELSE <<Len(e.vehicles), Max2(e.max_vehicles, 1)>>

(* pop_last_vehicle: [edge, veh, err]; CellularEdge inherits BaseEdge's *)
pop_last_vehicle(e, ids) ==
    IF e.kind = "cellular"
    THEN [edge |-> e, veh |-> None, err |-> "NotImplementedError"]
    ELSE Fluid_pop_last_vehicle(e, ids)

(* peek_last_vehicle: [edge, veh, err]; CellularEdge inherits BaseEdge's *)
peek_last_vehicle(e, ids) ==
    IF e.kind = "cellular"
    THEN [edge |-> e, veh |-> None, err |-> "NotImplementedError"]
    ELSE LET peeked == Fluid_peek_last_vehicle(e, ids)
         IN  [edge |-> e, veh |-> peeked.veh, err |-> peeked.err]

(* density_max 0.5 on 3 m truncates to one vehicle, 0.2 on 1 m to none *)
FluidOneRoad == FluidEdge(3, 1, 1, 2)

FluidNoRoad == FluidEdge(1, 2, 1, 5)

(* density_max 2.3 on 1 m: two vehicles, which still move when it is full *)
FluidDenseRoad == FluidEdge(1, 1, 23, 10)

EdgeChoices ==
    {CellularEdge(d, vm, 50) : d \in 1..MaxCells, vm \in 1..MaxVmax}
        \cup {FluidRoad, FluidShortRoad, FluidOneRoad, FluidNoRoad, FluidDenseRoad}

InitEdge ==
    /\ graph = SingleRoad
    /\ \E e \in EdgeChoices : edges = <<e>>
    /\ intersections = NoLights
    /\ vehicles = <<>>
    /\ vid = [v \in Objs |-> v]
    /\ path = [v \in Objs |-> <<>>]
    /\ current_edge = [v \in Objs |-> None]
    /\ speed = [v \in Objs |-> 0]
    /\ t = 0
    /\ crashed = ""
    /\ events = <<>>
    /\ returned = NoReturn
    /\ InitClock

(* edge.insert_vehicle(v) for a vehicle the caller holds *)
EdgeInsert(v) ==
    /\ current_edge[v] = None
    /\ edges[1].kind = "cellular" =>
          edges[1].cells[0] = None \/ Len(edges[1].entry_queue) < MaxQueue
    /\ LET ins == insert_vehicle(edges[1], speed, vid, v)
       IN  /\ edges' = [edges EXCEPT ![1] = ins.edge]
           /\ speed' = ins.speed
           /\ current_edge' = IF ins.ok THEN [current_edge EXCEPT ![v] = 1] ELSE current_edge
           /\ returned' = Return("insert_vehicle", <<v>>, [result |-> ins.ok, err |-> ""])
    /\ UNCHANGED <<graph, intersections, vehicles, vid, path, t, crashed, events,
                   clock>>

(* edge.update(), with either value of allow_exit on a CellularEdge *)
EdgeUpdate(allow_exit) ==
    /\ IF edges[1].kind = "cellular"
       THEN \E u \in Cellular_update(edges[1], speed, allow_exit) :
               /\ edges' = [edges EXCEPT ![1] = u.edge]
               /\ speed' = u.speed
               /\ current_edge' = [v \in Objs |->
                                     IF v \in Range(u.exiting) THEN None ELSE current_edge[v]]
               /\ returned' = Return("update", <<allow_exit>>,
                                     [result |-> u.exiting, err |-> u.err])
       ELSE /\ allow_exit
            /\ \E u \in Fluid_update(edges[1], speed, vid) :
                  /\ edges' = [edges EXCEPT ![1] = u.edge]
                  /\ speed' = u.speed
                  /\ current_edge' = current_edge
                  /\ returned' = Return("update", <<allow_exit>>,
                                        [result |-> <<>>, err |-> u.err])
    /\ UNCHANGED <<graph, intersections, vehicles, vid, path, t, crashed, events,
                   clock>>

(* edge.pop_last_vehicle(); the vehicle it returns is back with the caller *)
EdgePop ==
    /\ LET popped == pop_last_vehicle(edges[1], vid)
       IN  /\ edges' = [edges EXCEPT ![1] = popped.edge]
           /\ current_edge' = [v \in Objs |-> IF v = popped.veh THEN None ELSE current_edge[v]]
           /\ returned' = Return("pop_last_vehicle", <<>>,
                                 [result |-> popped.veh, err |-> popped.err])
    /\ UNCHANGED <<graph, intersections, vehicles, vid, path, speed, t, crashed, events,
                   clock>>

(* edge.peek_last_vehicle() *)
EdgePeek ==
    /\ LET peeked == peek_last_vehicle(edges[1], vid)
       IN  /\ edges' = [edges EXCEPT ![1] = peeked.edge]
           /\ current_edge' = [v \in Objs |->
                                 IF v \notin Range(peeked.edge.vehicles)
                                    /\ v \in Range(edges[1].vehicles)
                                 THEN None ELSE current_edge[v]]
           /\ returned' = Return("peek_last_vehicle", <<>>,
                                 [result |-> peeked.veh, err |-> peeked.err])
    /\ UNCHANGED <<graph, intersections, vehicles, vid, path, speed, t, crashed, events,
                   clock>>

(* edge.get_occupation_ratio() *)
EdgeRatio ==
    /\ returned' = Return("get_occupation_ratio", <<>>,
                          [result |-> get_occupation_ratio(edges[1]), err |-> ""])
    /\ UNCHANGED <<graph, edges, intersections, vehicles, vid, path, current_edge, speed,
                   t, crashed, events,
                   clock>>

NextEdge ==
    \/ \E v \in Objs : EdgeInsert(v)
    \/ \E allow_exit \in BOOLEAN : EdgeUpdate(allow_exit)
    \/ EdgePop
    \/ EdgePeek
    \/ EdgeRatio

SpecEdge == InitEdge /\ [][NextEdge]_vars

-----------------------------------------------------------------------------
(* One FluidEdge in the tick loop: internal_step calls update() on every   *)
(* edge at every step and pops the vehicle at the exit when it can pass,   *)
(* so neither call is postponed forever                                    *)

FlowChoices == {FluidRoad, FluidShortRoad, FluidOneRoad, FluidDenseRoad}

InitFlow ==
    /\ InitEdge
    /\ edges[1] \in FlowChoices

SpecFlow ==
    /\ InitFlow
    /\ [][NextEdge]_vars
    /\ WF_vars(EdgeUpdate(TRUE))
    /\ WF_vars(EdgePop)

-----------------------------------------------------------------------------
(* State functions used by the properties *)

(* the cells of a CellularEdge holding v *)
CellsOf(e, v) == {p \in DOMAIN e.cells : e.cells[p] = v}

(* v is on the road: in a cell, or in the FluidEdge's vehicle list *)
OnRoad(e, v) == CellsOf(e, v) # {} \/ v \in Range(e.vehicles)

(* v is held by the edge object at all: on the road or in its entry queue *)
HeldBy(e, v) == OnRoad(e, v) \/ v \in Range(e.entry_queue)

Live(v) == v \in Range(vehicles)

EventsOf(kind) == {events[k] : k \in {j \in DOMAIN events : events[j].kind = kind}}

FluidPosition(e, v) == e.positions[vid[v]]

-----------------------------------------------------------------------------
(* Properties *)

(* C1: on a CellularEdge, after any sequence of insert_vehicle and update  *)
(* calls, every vehicle on the edge occupies exactly one cell, and update  *)
(* never overwrites a vehicle: one that leaves its cells was returned as   *)
(* exiting.                                                                *)
C1_OneCellPerVehicle ==
    [][\A v \in Objs :
          /\ Cardinality(CellsOf(edges[1], v)') <= 1
          /\ (CellsOf(edges[1], v) # {} /\ CellsOf(edges[1], v)' = {})
                => \E ev \in EventsOf("exiting")' : ev.veh = v]_vars

(* C4: a traffic light with a non-empty list of distinct incoming nodes    *)
(* permits exactly one node of the list in every reachable state; with an  *)
(* empty list it permits every node.                                       *)
C4_ExactlyOnePermitted ==
    \A n \in Nodes :
        LET l == intersections[n]
        IN  l.kind = "traffic_light" =>
                IF l.incoming_nodes = <<>>
                THEN \A src \in Nodes : can_pass(l, src)
                ELSE Cardinality({src \in Nodes :
                                     /\ src \in Range(l.incoming_nodes)
                                     /\ can_pass(l, src)}) = 1

C4_Witness ==
    \E n \in Nodes :
        LET l == intersections[n]
        IN  /\ l.kind = "traffic_light"
            /\ Len(l.incoming_nodes) = 3
            /\ t > 0
            /\ l.current_green_idx = 2
            /\ can_pass(l, l.incoming_nodes[3])
            /\ ~can_pass(l, l.incoming_nodes[1])

(* C5: a traffic light over k incoming nodes with duration d >= 1, updated *)
(* once per step, permits node number (t div d) mod k of its list after t  *)
(* steps: the first node first, the next one every d updates, cyclically.  *)
C5_RoundRobinSchedule ==
    \A n \in Nodes :
        LET l == intersections[n]
            k == Len(l.incoming_nodes)
        IN  (l.kind = "traffic_light" /\ k > 0) =>
                /\ l.timer = t % l.duration
                /\ l.current_green_idx = (t \div l.duration) % k
                /\ \A src \in Nodes :
                      can_pass(l, src) <=>
                          src = l.incoming_nodes[((t \div l.duration) % k) + 1]

C5_Witness ==
    \E n \in Nodes :
        LET l == intersections[n]
        IN  /\ l.kind = "traffic_light"
            /\ Len(l.incoming_nodes) = 3
            /\ l.duration = 3
            /\ t = 9
            /\ can_pass(l, l.incoming_nodes[1])

(* C2: at the end of every completed step, any two vehicles on the same    *)
(* FluidEdge are at least the safe distance (0.5) apart.                   *)
C2_FluidSafeDistance ==
    (t > 0 /\ crashed = "") =>
        \A i \in DOMAIN edges :
            edges[i].kind = "fluid" =>
                \A a, b \in DOMAIN edges[i].vehicles :
                    a < b =>
                        LET pa == FluidPosition(edges[i], edges[i].vehicles[a])
                            pb == FluidPosition(edges[i], edges[i].vehicles[b])
                        IN  pa - pb >= SafeDistance \/ pb - pa >= SafeDistance

(* C3: a transfer that fails onto a one-cell CellularEdge whose cell is     *)
(* occupied raises nothing, leaves the vehicle on its upstream edge and    *)
(* among the live vehicles, and puts it nowhere on the downstream edge.    *)
C3_SpillbackKeepsVehicleUpstream ==
    \A ev \in EventsOf("failed") :
        (edges[ev.next].kind = "cellular" /\ edges[ev.next].distance = 1) =>
            /\ crashed = ""
            /\ Live(ev.veh)
            /\ OnRoad(edges[ev.edge], ev.veh)
            /\ ~HeldBy(edges[ev.next], ev.veh)

(* C6: on the map A -> B -> C of CellularEdges with 20 and 30 cells, with   *)
(* one vehicle loaded on A -> B and routed to C, the tick loop is never    *)
(* stopped while the vehicle is still live.                                *)
C6_EndToEndLoopSurvives ==
    (/\ Len(edges) = 2
     /\ edges[1].kind = "cellular" /\ edges[1].distance = 20
     /\ edges[2].kind = "cellular" /\ edges[2].distance = 30
     /\ Len(vehicles) = 1
     /\ current_edge[vehicles[1]] = 1
     /\ vehicles[1] \in Range(edges[1].cells)) =>
        crashed = ""

(* C7: no error escapes a simulation step, in any reachable state.         *)
C7_NoErrorEscapesStep == crashed = ""

(* C8: after a failed transfer the vehicle still has the path it had       *)
(* before the attempt, element for element, and is still on the same edge  *)
(* and among the live vehicles.                                            *)
C8_FailedTransferRestoresPath ==
    crashed = "" =>
        \A ev \in EventsOf("failed") :
            /\ path[ev.veh] = ev.before
            /\ current_edge[ev.veh] = ev.edge
            /\ OnRoad(edges[ev.edge], ev.veh)
            /\ Live(ev.veh)

(* C9: after a step in which a vehicle was transferred from one edge to    *)
(* the next, it is no longer on the old edge, it is on the next edge, its  *)
(* edge reference is the next edge, it is still live, and its path is the  *)
(* old path without its first element.                                     *)
C9_SuccessfulTransfer ==
    crashed = "" =>
        \A ev \in EventsOf("moved") :
            /\ ~HeldBy(edges[ev.edge], ev.veh)
            /\ HeldBy(edges[ev.next], ev.veh)
            /\ current_edge[ev.veh] = ev.next
            /\ Live(ev.veh)
            /\ path[ev.veh] = Tail(ev.before)

(* C10: in a step in which the controller at an edge's destination does    *)
(* not let the edge's source pass, no vehicle leaves the edge: each one    *)
(* that was on it before the step is on it after, with its path unchanged. *)
C10_RedLightHoldsVehicles ==
    [][t' = t + 1 =>
        \A i \in DOMAIN edges :
            LET src == graph.edgeList[i].src
                dst == graph.edgeList[i].dst
            IN  (/\ intersections'[dst].kind # "none"
                 /\ ~can_pass(intersections'[dst], src)) =>
                    \A v \in Objs :
                        OnRoad(edges[i], v) =>
                            /\ OnRoad(edges'[i], v)
                            /\ path'[v] = path[v]
                            /\ Live(v)']_vars

(* the controller at the end of edge i lets the edge's source pass *)
Permitted(lights, i) ==
    LET l == lights[graph.edgeList[i].dst]
    IN  l.kind = "none" \/ can_pass(l, graph.edgeList[i].src)

Gone(v) == ~Live(v) /\ \A j \in DOMAIN edges : ~HeldBy(edges[j], v)

(* C11: a step removes a vehicle as arrived exactly when the vehicle is at  *)
(* the exit of its edge, the controller permits the passage and its path   *)
(* holds no target after the next one; the vehicle is then on no edge and  *)
(* not live, and a vehicle that was removed stays off every edge and out   *)
(* of the live list.                                                       *)
C11_ArrivalRemoves ==
    [][t' = t + 1 =>
        \A v \in Objs :
            LET arrived == \E ev \in EventsOf("arrived")' : ev.veh = v
            IN  /\ arrived => Live(v) /\ Gone(v)'
                /\ \A ev \in EventsOf("arrived")' :
                      Len(ev.before) <= 1 /\ Permitted(intersections', ev.edge)
                /\ \A i \in DOMAIN edges :
                      (/\ Live(v)
                       /\ OnRoad(edges[i], v)
                       /\ ~OnRoad(edges'[i], v)
                       /\ Len(path[v]) <= 1
                       /\ Permitted(intersections', i)) => arrived
                /\ (vid[v] # None /\ ~Live(v)) => Gone(v)']_vars

(* C12: a vehicle that leaves its edge while its path names a connection    *)
(* that is not in the graph is removed from the edge and from the live     *)
(* list, the step runs to its end, and no other vehicle is removed by it.  *)
C12_MissingEdgeRemovesVehicle ==
    [][t' = t + 1 =>
        \A v \in Objs : \A i \in DOMAIN edges :
            (/\ Live(v)
             /\ OnRoad(edges[i], v)
             /\ Len(path[v]) >= 2
             /\ get_edge(graph, graph.edgeList[i].dst, path[v][2]) = 0
             /\ Permitted(intersections', i)
             /\ ~OnRoad(edges'[i], v)) =>
                /\ crashed' = ""
                /\ Gone(v)'
                /\ \E ev \in EventsOf("invalid")' : ev.veh = v
                /\ \A u \in Objs \ {v} :
                      (Live(u) /\ ~Live(u)') =>
                          \E ev \in EventsOf("arrived")' \cup EventsOf("invalid")' :
                              ev.veh = u]_vars

(* C13: a vehicle transferred onto an edge during a step is not advanced   *)
(* by that edge in the same step: after the step it is at the entrance of  *)
(* the next edge, at rest, and nothing else happened to it in that step.   *)
C13_NotAdvancedAfterTransfer ==
    crashed = "" =>
        \A k \in DOMAIN events :
            events[k].kind = "moved" =>
                LET v == events[k].veh
                    e == edges[events[k].next]
                IN  /\ \A j \in DOMAIN events : j > k => events[j].veh # v
                    /\ HeldBy(e, v)
                    /\ e.kind = "fluid" => FluidPosition(e, v) = 0 /\ speed[v] = 0

(* this step is a direct call whose record differs from the last one *)
NewCall ==
    \/ returned'.call # returned.call
    \/ returned'.args # returned.args
    \/ returned'.value # returned.value

(* more than half of the cells of edge i are occupied *)
AboveThreshold(i) == 2 * CellularOccupied(edges[i]) > edges[i].distance

(* C14: on a map with two routes of equal length from A to D, get_path     *)
(* with the congestion-aware cost returns the route all of whose edges are *)
(* at most half occupied when an edge of the other route is more than half *)
(* occupied.                                                               *)
C14_PrefersFreeRoute ==
    [][(/\ returned'.call = "get_path"
        /\ NewCall
        /\ returned'.args = <<"A", "D">>
        /\ graph.edgeList = DiamondEdges
        /\ edges[1].distance + edges[3].distance = edges[2].distance + edges[4].distance) =>
            /\ ((AboveThreshold(1) \/ AboveThreshold(3))
                    /\ ~AboveThreshold(2) /\ ~AboveThreshold(4))
                  => returned'.value.path = <<"A", "C", "D">>
            /\ ((AboveThreshold(2) \/ AboveThreshold(4))
                    /\ ~AboveThreshold(1) /\ ~AboveThreshold(3))
                  => returned'.value.path = <<"A", "B", "D">>]_vars

(* the nodes that can be reached from the nodes of S along edges *)
RECURSIVE ReachableFrom(_, _)
ReachableFrom(g, S) ==
    LET more == S \cup {g.edgeList[i].dst : i \in {j \in DOMAIN g.edgeList : g.edgeList[j].src \in S}}
    IN  IF more = S THEN S ELSE ReachableFrom(g, more)

C15_WitnessNoPath ==
    /\ returned.call = "get_path"
    /\ returned.args = <<"A", "D">>
    /\ returned.value.err = "RuntimeError"

(* C16: add_edge raises a duplicate-edge error when the edge is already in *)
(* the graph and an unknown-node error when src or dst is not a node of    *)
(* the graph, and in both cases leaves nodes, edges and edge objects as    *)
(* they were.                                                              *)
C16_AddEdgeRejects ==
    [][returned'.call = "add_edge" =>
        LET src == returned'.args[1]
            dst == returned'.args[2]
        IN  /\ get_edge(graph, src, dst) # 0 =>
                  /\ returned'.value = "DuplicateEdgeError"
                  /\ graph' = graph /\ edges' = edges
            /\ (src \notin graph.nodes \/ dst \notin graph.nodes) =>
                  /\ returned'.value = "UnknownNodeError"
                  /\ graph' = graph /\ edges' = edges]_vars

(* C17: for both edge classes, after any sequence of insert, update and   *)
(* pop calls the occupation ratio lies in [0, 1]: its numerator is at      *)
(* least 0 and at most its (positive) denominator.                         *)
C17_OccupationRatioInUnit ==
    \A i \in DOMAIN edges :
        LET ratio == get_occupation_ratio(edges[i])
        IN  ratio[2] > 0 /\ 0 <= ratio[1] /\ ratio[1] <= ratio[2]

(* a cellular road of several cells, all occupied, reported as ratio 1 *)
C17_Witness ==
    /\ returned.call = "get_occupation_ratio"
    /\ edges[1].kind = "cellular"
    /\ edges[1].distance >= 2
    /\ returned.value.result[1] = returned.value.result[2]
    /\ returned.value.result = get_occupation_ratio(edges[1])

(* C18: on either edge class, get_occupation_ratio and peek_last_vehicle   *)
(* return a result, leave the edge and the vehicles as they were, and a    *)
(* second call right after the first returns the same result.              *)
C18_QueriesAreIdempotent ==
    [][returned'.call \in {"get_occupation_ratio", "peek_last_vehicle"} =>
          /\ returned'.value.err = ""
          /\ edges' = edges
          /\ speed' = speed
          /\ current_edge' = current_edge
          /\ returned.call = returned'.call => returned'.value = returned.value]_vars

(* C19: CellularEdge.insert_vehicle returns True exactly when cell 0 is    *)
(* empty, and then puts the vehicle in cell 0 with speed min(speed, vmax); *)
(* when cell 0 is occupied it returns False and leaves the edge, its entry *)
(* queue included, exactly as it was.                                      *)
C19_CellularInsert ==
    [][(returned'.call = "insert_vehicle" /\ edges[1].kind = "cellular") =>
          LET v == returned'.args[1]
          IN  IF edges[1].cells[0] = None
              THEN /\ returned'.value.result = TRUE
                   /\ edges'[1] = [edges[1] EXCEPT !.cells[0] = v]
                   /\ speed'[v] = Min2(speed[v], edges[1].vmax * Scale)
              ELSE /\ returned'.value.result = FALSE
                   /\ edges' = edges]_vars

(* C20: FluidEdge.insert_vehicle returns True exactly when the number of   *)
(* vehicles is below max_vehicles = floor(distance * density_max), and     *)
(* then appends the vehicle at position 0 with speed 0; otherwise it       *)
(* returns False and changes nothing; the number of vehicles never exceeds *)
(* max_vehicles.                                                           *)
C20_FluidInsert ==
    /\ [](\A i \in DOMAIN edges :
            edges[i].kind = "fluid" =>
               /\ edges[i].max_vehicles
                     = (edges[i].distance * edges[i].dens_num) \div edges[i].dens_den
               /\ Len(edges[i].vehicles) <= edges[i].max_vehicles)
    /\ [][(returned'.call = "insert_vehicle" /\ edges[1].kind = "fluid") =>
             LET v == returned'.args[1]
             IN  IF Len(edges[1].vehicles) < edges[1].max_vehicles
                 THEN /\ returned'.value.result = TRUE
                      /\ edges'[1].vehicles = Append(edges[1].vehicles, v)
                      /\ edges'[1].positions = MapPut(edges[1].positions, vid[v], 0)
                      /\ speed' = [speed EXCEPT ![v] = 0]
                 ELSE /\ returned'.value.result = FALSE
                      /\ edges' = edges
                      /\ speed' = speed]_vars

(* a full fluid road that has just refused a vehicle *)
C20_Witness ==
    /\ returned.call = "insert_vehicle"
    /\ edges[1].kind = "fluid"
    /\ returned.value.result = FALSE
    /\ edges[1].max_vehicles > 0
    /\ Len(edges[1].vehicles) = edges[1].max_vehicles

(* C21: a vehicle whose insertion was refused in VehicleSpawner.update is  *)
(* discarded: it is not in the live list, and neither then nor in any      *)
(* later state is it in a cell, in a vehicle list or in an entry queue of  *)
(* an edge.  With spawners as the only source of vehicles: every vehicle   *)
(* an edge holds is in the live list, and the vehicle of a "refused" event *)
(* is held by no edge.                                                     *)
C21_RefusedSpawnIsDiscarded ==
    /\ \A v \in Objs : (\E i \in DOMAIN edges : HeldBy(edges[i], v)) => Live(v)
    /\ \A ev \in EventsOf("refused") :
          ~Live(ev.veh) /\ \A i \in DOMAIN edges : ~HeldBy(edges[i], ev.veh)

(* C22: a vehicle returned by VehicleSpawner.update has a non-empty path   *)
(* that ends at a node other than the spawner's, equal to the route        *)
(* get_path computes to that node, at the occupation before the call,      *)
(* without its first node; and the vehicle is on the edge from the         *)
(* spawner's node to the first node of its path.  When no destination has  *)
(* a route of at least 2 nodes, the call returns None and changes nothing. *)
C22_SpawnedVehicleFollowsRoute ==
    [][returned'.call = "update" =>
          LET spawner == graph.spawners[returned'.args[1]]
              vehicle == returned'.value
              Route(dst) == get_path(graph, [i \in DOMAIN edges |-> dynamic_weight(edges[i])],
                                     spawner.node, dst)
              Routed == {dst \in graph.nodes \ {spawner.node} :
                            Route(dst).err = "" /\ Len(Route(dst).path) >= 2}
          IN  /\ vehicle # None =>
                    /\ path'[vehicle] # <<>>
                    /\ path'[vehicle][Len(path'[vehicle])] \in Routed
                    /\ path'[vehicle] = Tail(Route(path'[vehicle][Len(path'[vehicle])]).path)
                    /\ LET i == get_edge(graph, spawner.node, path'[vehicle][1])
                       IN  i # 0 /\ OnRoad(edges'[i], vehicle) /\ ~OnRoad(edges[i], vehicle)
              /\ Routed = {} =>
                    /\ vehicle = None
                    /\ UNCHANGED <<edges, vehicles, vid, path, current_edge, speed>>]_vars

(* a vehicle spawned at A of the diamond towards D while the road A -> B   *)
(* was occupied: it was routed through C                                   *)
C22_Witness ==
    /\ returned.call = "update"
    /\ returned.value # None
    /\ Len(graph.edgeList) = 4
    /\ path[returned.value] = <<"C", "D">>
    /\ OnRoad(edges[2], returned.value)

(* C23: in every reachable state of every controller, and for every node  *)
(* src, can_pass(src) is true iff the controller has no incoming list (a   *)
(* plain intersection, or a traffic light with an empty list) or src is    *)
(* the incoming node at current_green_idx; get_state(src) is "GREEN" when  *)
(* can_pass(src) is true and "RED" otherwise.                              *)
C23_StateMatchesCanPass ==
    \A n \in Nodes : \A src \in Nodes :
        LET l == intersections[n]
            permitted == \/ l.incoming_nodes = <<>>
                         \/ src = l.incoming_nodes[l.current_green_idx + 1]
        IN  l.kind # "none" =>
                /\ can_pass(l, src) <=> permitted
                /\ get_state(l, src) = IF can_pass(l, src) THEN "GREEN" ELSE "RED"

(* a light that has moved on to its second node: green there, red for the first *)
C23_Witness ==
    \E n \in Nodes :
        LET l == intersections[n]
        IN  /\ l.kind = "traffic_light"
            /\ Len(l.incoming_nodes) >= 2
            /\ l.current_green_idx = 1
            /\ get_state(l, l.incoming_nodes[2]) = "GREEN"
            /\ get_state(l, l.incoming_nodes[1]) = "RED"
            /\ ~can_pass(l, l.incoming_nodes[1])

C25_CellularPeekAndPop ==
    [][(/\ returned'.call \in {"peek_last_vehicle", "pop_last_vehicle"}
        /\ edges[1].kind = "cellular") =>
          LET final == edges[1].distance - 1
          IN  /\ returned'.value.err = ""
              /\ returned'.value.result = edges[1].cells[final]
              /\ speed' = speed
              /\ edges'[1] = IF returned'.call = "peek_last_vehicle"
                             THEN edges[1]
                             ELSE [edges[1] EXCEPT !.cells[final] = None]]_vars

(* C26: on a FluidEdge, peek_last_vehicle returns the vehicle with the    *)
(* greatest position when that position is at least distance - 0.5 and     *)
(* None otherwise, and changes nothing; pop_last_vehicle returns the same  *)
(* vehicle and removes it and its position entry, every other vehicle and  *)
(* position staying as it was; when it returns None it changes nothing.    *)
C26_FluidPeekAndPop ==
    [][(/\ returned'.call \in {"peek_last_vehicle", "pop_last_vehicle"}
        /\ edges[1].kind = "fluid") =>
          LET e == edges[1]
              on == Range(e.vehicles)
              leaders == {v \in on : \A u \in on : FluidPosition(e, u) <= FluidPosition(e, v)}
              at_exit == {v \in leaders :
                             FluidPosition(e, v) >= e.distance * Scale - Scale \div 2}
              result == returned'.value.result
          IN  /\ returned'.value.err = ""
              /\ IF at_exit = {} THEN result = None ELSE result \in at_exit
              /\ speed' = speed
              /\ IF returned'.call = "peek_last_vehicle" \/ result = None
                 THEN edges' = edges
                 ELSE /\ edges'[1].vehicles = SelectSeq(e.vehicles, LAMBDA v : v # result)
                      /\ edges'[1].positions =
                            [k \in DOMAIN e.positions \ {vid[result]} |-> e.positions[k]]
                      /\ edges'[1] = [e EXCEPT !.vehicles = edges'[1].vehicles,
                                               !.positions = edges'[1].positions]]_vars

(* the leader was popped at the exit while a second vehicle stays on the road *)
C26_Witness ==
    /\ returned.call = "pop_last_vehicle"
    /\ edges[1].kind = "fluid"
    /\ returned.value.result # None
    /\ edges[1].vehicles # <<>>
    /\ returned.value.result \notin Range(edges[1].vehicles)
    /\ DOMAIN edges[1].positions = {vid[v] : v \in Range(edges[1].vehicles)}

(* C27: after any sequence of add_vehicle and step calls, every vehicle of *)
(* the live list is held by exactly one edge, and every vehicle an edge    *)
(* holds (in a cell, in a vehicle list or in an entry queue) is in the     *)
(* live list and held by no other edge.                                    *)
C27_VehiclesConserved ==
    \A v \in Objs :
        LET holders == {i \in DOMAIN edges : HeldBy(edges[i], v)}
        IN  /\ Live(v) => Cardinality(holders) = 1
            /\ holders # {} => Live(v) /\ Cardinality(holders) = 1

(* C28: CellularEdge.update treats each occupied cell p, from the far end  *)
(* to the entrance, against an obstacle o: the road's end, distance, for   *)
(* the first vehicle, then the new position of the vehicle ahead.  With    *)
(* s = min(old speed + 1, vmax, o - p - 1), the new speed is s, or s - 1   *)
(* when s > 0 (braking); it is never negative and the vehicle ends in cell *)
(* p + new speed.  Stated for updates of a road on which every vehicle     *)
(* occupies one cell and whose entry queue is empty.                       *)
C28_CellularAdvance ==
    [][(/\ returned'.call = "update"
        /\ edges[1].kind = "cellular"
        /\ returned'.value.err = ""
        /\ edges[1].entry_queue = <<>>
        /\ \A v \in Objs : Cardinality(CellsOf(edges[1], v)) <= 1) =>
          \A p \in DOMAIN edges[1].cells :
              LET e == edges[1]
                  vehicle == e.cells[p]
                  ahead == {q \in DOMAIN e.cells : q > p /\ e.cells[q] # None}
                  leader == e.cells[CHOOSE q \in ahead : \A r \in ahead : q <= r]
                  o == IF ahead = {} \/ CellsOf(edges'[1], leader) = {}
                       THEN e.distance
                       ELSE CHOOSE q \in CellsOf(edges'[1], leader) : TRUE
                  s == Min2(speed[vehicle] + Scale,
                            Min2(e.vmax * Scale, (o - p - 1) * Scale))
                  new_pos == p + speed'[vehicle] \div Scale
              IN  vehicle # None =>
                      /\ speed'[vehicle] = s \/ (s > 0 /\ speed'[vehicle] = s - Scale)
                      /\ speed'[vehicle] >= 0
                      /\ new_pos \in DOMAIN e.cells
                      /\ edges'[1].cells[new_pos] = vehicle]_vars

(* C29: the cost of a CellularEdge of at least one cell is its distance    *)
(* when at most 50% of its cells are occupied, 1.5 times its distance when *)
(* more than 50% and at most 80% are, and 3 times its distance above 80%;  *)
(* a road of the same length with at least as many occupied cells never    *)
(* costs less.                                                             *)
C29_CellularCostBands ==
    (/\ returned.call = "evaluate_weight"
     /\ edges[1].kind = "cellular"
     /\ edges[1].distance >= 1) =>
        LET d == edges[1].distance
            n == CellularOccupied(edges[1])
        IN  /\ returned.value.err = ""
            /\ returned.value.result =
                  IF 2 * n <= d THEN d * Scale
                  ELSE IF 5 * n <= 4 * d THEN (3 * d * Scale) \div 2
                  ELSE 3 * d * Scale
            /\ \A S \in SUBSET (0..(d - 1)) :
                  Cardinality(S) >= n =>
                      evaluate_weight(CellularWith(d, S)).result >= returned.value.result

(* a road of 5 cells with 4 vehicles: exactly 80%, still in the 1.5 band *)
C29_Witness ==
    /\ returned.call = "evaluate_weight"
    /\ edges[1].kind = "cellular"
    /\ edges[1].distance = 5
    /\ CellularOccupied(edges[1]) = 4
    /\ returned.value.result = (3 * 5 * Scale) \div 2

(* C30: for every edge of either class and every occupation, the cost      *)
(* function returns a value that is at least the cost the same edge has    *)
(* without vehicles (its free-flow cost).                                  *)
C30_CostAtLeastFreeFlow ==
    returned.call = "evaluate_weight" =>
        LET e == edges[1]
            empty == IF e.kind = "cellular" THEN CellularWith(e.distance, {})
                     ELSE FluidWith(e, 0)
        IN  /\ returned.value.err = ""
            /\ returned.value.result >= evaluate_weight(empty).result


-----------------------------------------------------------------------------
(* Cheapest routes, to compare get_path with *)

(* the total cost of the node list p under the per-edge costs weight *)
RECURSIVE PathCost(_, _, _)
PathCost(g, weight, p) ==
    IF Len(p) < 2 THEN 0
    ELSE weight[get_edge(g, p[1], p[2])] + PathCost(g, weight, Tail(p))

(* the least cost from each node to dst over routes of at most k edges *)
RECURSIVE RemainingCost(_, _, _, _)
RemainingCost(g, weight, dst, k) ==
    IF k = 0 THEN [n \in g.nodes |-> IF n = dst THEN 0 ELSE Infinity]
    ELSE LET prev == RemainingCost(g, weight, dst, k - 1)
         IN  [n \in g.nodes |->
                 LET via == {weight[i] + prev[g.edgeList[i].dst] :
                                i \in {j \in DOMAIN g.edgeList : g.edgeList[j].src = n}}
                     all == via \cup {prev[n]}
                 IN  CHOOSE c \in all : \A d \in all : c <= d]

(* the true remaining cost from each node to dst *)
TrueCost(g, weight, dst) == RemainingCost(g, weight, dst, Cardinality(g.nodes))

(* the per-edge costs get_path is called with *)
CurrentWeights == [i \in DOMAIN edges |-> dynamic_weight(edges[i])]

(* C31: with the default cost functions the Euclidean distance between     *)
(* node coordinates never exceeds the true remaining cost to the           *)
(* destination, and the path get_path returns has the least total cost, at *)
(* the current occupancies, of all paths from src to dst.                  *)
C31_HeuristicAdmissibleAndPathMinimal ==
    [][(/\ returned'.call = "get_path"
        /\ NewCall
        /\ returned'.value.err = "") =>
            LET src == returned'.args[1]
                dst == returned'.args[2]
                best == TrueCost(graph, CurrentWeights, dst)
            IN  /\ \A n \in graph.nodes :
                       best[n] < Infinity => euclidean_heuristic(graph, n, dst) <= best[n]
                /\ PathCost(graph, CurrentWeights, returned'.value.path) = best[src]]_vars


(* C32: in every reachable state every vehicle on a FluidEdge has a        *)
(* position p with 0 <= p < distance.                                      *)
C32_FluidPositionInRange ==
    \A i \in DOMAIN edges :
        edges[i].kind = "fluid" =>
            \A k \in DOMAIN edges[i].vehicles :
                LET id == vid[edges[i].vehicles[k]]
                IN  id \in DOMAIN edges[i].positions =>
                        /\ 0 <= edges[i].positions[id]
                        /\ edges[i].positions[id] < edges[i].distance * Scale


(* C33: between steps, the current_edge of every vehicle of the live set,  *)
(* whether loaded initially, created by a spawner or transferred, is the   *)
(* edge that currently holds that vehicle.                                 *)
C33_CurrentEdgeHoldsVehicle ==
    \A v \in Objs :
        Live(v) =>
            /\ current_edge[v] \in DOMAIN edges
            /\ HeldBy(edges[current_edge[v]], v)


(* C34: every vehicle a spawner creates gets a new unique id: in every     *)
(* reachable state no two vehicles of the simulation, and so no two        *)
(* vehicles on the same FluidEdge, have the same id.                       *)
C34_VehicleIdsUnique ==
    \A u \in Objs : \A v \in Objs :
        (u # v /\ Live(u) /\ Live(v)) => vid[u] # vid[v]


(* C35: on a FluidEdge, update never moves a vehicle backwards: the        *)
(* position of every vehicle after update is greater than or equal to its  *)
(* position before.                                                        *)
C35_FluidNeverMovesBack ==
    [][(/\ returned'.call = "update"
        /\ returned'.value.err = ""
        /\ edges[1].kind = "fluid") =>
            \A k \in DOMAIN edges[1].vehicles :
                LET id == vid[edges[1].vehicles[k]]
                IN  edges'[1].positions[id] >= edges[1].positions[id]]_vars


(* C36: vehicles leave a FluidEdge in the order in which they were         *)
(* inserted: peek_last_vehicle and pop_last_vehicle never return a vehicle *)
(* while a vehicle inserted before it is still on the edge.  The vehicle   *)
(* list is appended to on insert, so its order is the insertion order.     *)
C36_FluidFirstInFirstOut ==
    [][(/\ returned'.call \in {"peek_last_vehicle", "pop_last_vehicle"}
        /\ edges[1].kind = "fluid"
        /\ returned'.value.err = ""
        /\ returned'.value.result # None) =>
            returned'.value.result = Head(edges[1].vehicles)]_vars


(* a vehicle is ready at the exit: peek_last_vehicle returns it *)
ReadyAtExit == Fluid_peek_last_vehicle(edges[1], vid).veh # None

(* C37: on a FluidEdge with vmax > 0 that holds at least one vehicle, with *)
(* update called again and again and the vehicle at the exit popped when   *)
(* it is ready, some vehicle eventually becomes ready at the exit,         *)
(* whatever the number of vehicles on the edge up to max_vehicles.         *)
C37_FluidEventuallyReady ==
    (edges[1].vmax > 0 /\ edges[1].vehicles # <<>>) ~> ReadyAtExit


(* v waits at the exit of edge e: peek_last_vehicle returns it, or it is   *)
(* in the last cell of a CellularEdge                                      *)
AtExit(e, v) ==
    IF e.kind = "fluid"
    THEN Fluid_peek_last_vehicle(e, vid).veh = v
    ELSE e.cells[e.distance - 1] = v

(* the traffic light at the end of edge i has a non-empty list of incoming *)
(* nodes that does not name the edge's source                              *)
UnlistedSource(i) ==
    LET l == intersections[graph.edgeList[i].dst]
    IN  /\ l.kind = "traffic_light"
        /\ l.incoming_nodes # <<>>
        /\ graph.edgeList[i].src \notin Range(l.incoming_nodes)

(* C38: a traffic light with a non-empty incoming list never lets a node   *)
(* pass that is not in the list, so a vehicle waiting at the exit of an    *)
(* edge from such a node is not transferred and not removed by a step: it  *)
(* is still on that edge and live after it.                                *)
C38_UnlistedSourceNeverPasses ==
    [][t' = t + 1 =>
        \A i \in DOMAIN edges :
            UnlistedSource(i) =>
                /\ ~can_pass(intersections[graph.edgeList[i].dst], graph.edgeList[i].src)
                /\ ~can_pass(intersections'[graph.edgeList[i].dst], graph.edgeList[i].src)
                /\ \A v \in Objs :
                       (v # None /\ AtExit(edges[i], v)) =>
                           /\ OnRoad(edges'[i], v)
                           /\ Live(v)'
                           /\ path'[v] = path[v]]_vars


(* the index and the timer of every traffic light with a non-empty list    *)
(* and duration >= 1 are within their ranges                               *)
LightInRange ==
    \A n \in Nodes :
        LET l == intersections[n]
        IN  (l.kind = "traffic_light" /\ l.incoming_nodes # <<>> /\ l.duration >= 1) =>
                /\ 0 <= l.current_green_idx
                /\ l.current_green_idx < Len(l.incoming_nodes)
                /\ 0 <= l.timer
                /\ l.timer < l.duration

(* C39: for a traffic light with a non-empty incoming list of length k and *)
(* duration d >= 1, after any number of update() calls                     *)
(* 0 <= current_green_idx < k and 0 <= timer < d; with an empty incoming   *)
(* list update() changes nothing.                                          *)
C39_LightIndexAndTimerInRange ==
    /\ []LightInRange
    /\ [][\A n \in Nodes :
             (intersections[n].kind = "traffic_light"
                 /\ intersections[n].incoming_nodes = <<>>) =>
                    intersections'[n] = intersections[n]]_vars

C39_Witness ==
    /\ t > 2 * MaxDuration
    /\ \E n \in Nodes :
          LET l == intersections[n]
          IN  /\ l.kind = "traffic_light"
              /\ Len(l.incoming_nodes) = 3
              /\ l.duration = MaxDuration
              /\ l.current_green_idx = 2
              /\ l.timer = MaxDuration - 1

C39_WitnessEmpty ==
    /\ t > 0
    /\ \E n \in Nodes :
          /\ intersections[n].kind = "traffic_light"
          /\ intersections[n].incoming_nodes = <<>>

=============================================================================
